---- MODULE Spec2Model ----
(***************************************************************************)
(* Model of the company data scraper (src/data-scraper): the URL           *)
(* classifier and catalog link extractor, the result status rules and the  *)
(* persistence gate, and the batch loop with the per-company crawl.        *)
(*                                                                         *)
(* Text is modelled as a sequence of characters, each character a string:  *)
(* an ASCII character is itself ("a", "/"), a Turkish letter carries its   *)
(* name ("s-cedilla", "I-dot", "dotless-i").                               *)
(***************************************************************************)
EXTENDS Integers, Sequences, FiniteSets, TLC

VARIABLES
  input,        \* the arguments the operations of a function-level specification draw from
  op,           \* the operation applied last ("none" before the first)
  arg,          \* the argument it was applied to
  ret,          \* the value it returned
  pending_data, \* ExcelWriter.pending_data
  companies,    \* main: the companies read from the input file
  cur,          \* main: the number of the company being processed (0 before the loop)
  results,      \* main: results
  tracker,      \* main: the ProgressTracker
  pc,           \* where the batch is: in main's loop or in a phase of scrape()
  scraper,      \* the GenericScraper: visited_urls, _strategy_manager, downloader caches
  scrape,       \* the locals of scrape()
  crawl,        \* the locals of _find_all_catalogs
  deep,         \* the locals of DeepScanStrategy.find_catalog_links
  contact,      \* the locals of _find_contact_info
  download,     \* the locals of _download_catalogs
  faults        \* the failures of the network and the errors raised so far

fnVars == <<input, op, arg, ret>>

progVars == <<companies, cur, results, tracker, pc, scraper, scrape, crawl, deep, contact,
              download, faults>>

vars == <<input, op, arg, ret, pending_data, companies, cur, results, tracker, pc,
          scraper, scrape, crawl, deep, contact, download, faults>>

\* The batch is not running: the state of the function-level specifications.
ProgOff ==
  /\ companies = <<>> /\ cur = 0 /\ results = <<>> /\ tracker = <<>> /\ pc = "off"
  /\ scraper = <<>> /\ scrape = <<>> /\ crawl = <<>> /\ deep = <<>>
  /\ contact = <<>> /\ download = <<>> /\ faults = 0

(***************************************************************************)
(* Characters and strings                                                  *)
(***************************************************************************)

\* str.lower() of one character; U+0130 lowers to "i" followed by U+0307.
LowerChar(c) ==
  CASE c = "A" -> <<"a">> [] c = "B" -> <<"b">> [] c = "C" -> <<"c">>
    [] c = "D" -> <<"d">> [] c = "E" -> <<"e">> [] c = "F" -> <<"f">>
    [] c = "G" -> <<"g">> [] c = "H" -> <<"h">> [] c = "I" -> <<"i">>
    [] c = "J" -> <<"j">> [] c = "K" -> <<"k">> [] c = "L" -> <<"l">>
    [] c = "M" -> <<"m">> [] c = "N" -> <<"n">> [] c = "O" -> <<"o">>
    [] c = "P" -> <<"p">> [] c = "Q" -> <<"q">> [] c = "R" -> <<"r">>
    [] c = "S" -> <<"s">> [] c = "T" -> <<"t">> [] c = "U" -> <<"u">>
    [] c = "V" -> <<"v">> [] c = "W" -> <<"w">> [] c = "X" -> <<"x">>
    [] c = "Y" -> <<"y">> [] c = "Z" -> <<"z">>
    [] c = "S-cedilla" -> <<"s-cedilla">>
    [] c = "G-breve" -> <<"g-breve">>
    [] c = "U-diaeresis" -> <<"u-diaeresis">>
    [] c = "O-diaeresis" -> <<"o-diaeresis">>
    [] c = "C-cedilla" -> <<"c-cedilla">>
    [] c = "I-dot" -> <<"i", "combining-dot">>
    [] OTHER -> <<c>>

RECURSIVE Lower(_)
Lower(s) == IF s = <<>> THEN <<>> ELSE LowerChar(Head(s)) \o Lower(Tail(s))

\* kw in s
Contains(s, kw) ==
  \E i \in 1..(Len(s) - Len(kw) + 1) : \A j \in 1..Len(kw) : s[i + j - 1] = kw[j]

StartsWith(s, p) == Len(p) <= Len(s) /\ \A j \in 1..Len(p) : s[j] = p[j]

EndsWith(s, p) ==
  Len(p) <= Len(s) /\ \A j \in 1..Len(p) : s[Len(s) - Len(p) + j] = p[j]

Whitespace == {" ", "tab", "newline"}

RECURSIVE LStrip(_)
LStrip(s) == IF s # <<>> /\ Head(s) \in Whitespace THEN LStrip(Tail(s)) ELSE s

RECURSIVE RStrip(_)
RStrip(s) ==
  IF s # <<>> /\ s[Len(s)] \in Whitespace THEN RStrip(SubSeq(s, 1, Len(s) - 1)) ELSE s

\* str.strip()
Strip(s) == RStrip(LStrip(s))

\* s.split('?')[0]
BeforeQuery(s) ==
  LET qs == {i \in 1..Len(s) : s[i] = "?"}
  IN IF qs = {} THEN s
     ELSE SubSeq(s, 1, (CHOOSE i \in qs : \A k \in qs : i <= k) - 1)

\* s.rstrip('/')
RECURSIVE RStripSlash(_)
RStripSlash(s) ==
  IF s # <<>> /\ s[Len(s)] = "/" THEN RStripSlash(SubSeq(s, 1, Len(s) - 1)) ELSE s

Min(S) == CHOOSE x \in S : \A y \in S : x <= y

(***************************************************************************)
(* config/settings.py                                                      *)
(***************************************************************************)

VALID_EXTENSIONS ==
  << <<".","p","d","f">>, <<".","d","o","c">>, <<".","d","o","c","x">>,
     <<".","x","l","s">>, <<".","x","l","s","x">> >>

PDF_POSITIVE_KEYWORDS ==
  <<
    <<"k","a","t","a","l","o","g">>,
    <<"k","a","t","a","l","o","g","u">>,
    <<"b","r","o","s","u","r">>,
    <<"b","r","o","s-cedilla","u-diaeresis","r">>,
    <<"f","i","y","a","t","-","l","i","s","t","e","s","i">>,
    <<"f","i","y","a","t","_","l","i","s","t","e","s","i">>,
    <<"u","r","u","n","-","k","a","t","a","l","o","g","u">>,
    <<"u-diaeresis","r","u-diaeresis","n","-","k","a","t","a","l","o","g","u">>,
    <<"f","i","y","a","t"," ","l","i","s","t","e","s","i">>,
    <<"c","a","t","a","l","o","g">>,
    <<"c","a","t","a","l","o","g","u","e">>,
    <<"b","r","o","c","h","u","r","e">>,
    <<"p","r","i","c","e","l","i","s","t">>,
    <<"p","r","i","c","e","-","l","i","s","t">>,
    <<"p","r","i","c","e","_","l","i","s","t">>,
    <<"p","r","o","d","u","c","t","-","c","a","t","a","l","o","g">>,
    <<"p","r","o","d","u","c","t","_","c","a","t","a","l","o","g">>
  >>

PDF_NEGATIVE_KEYWORDS ==
  <<
    <<"g","i","z","l","i","l","i","k">>,
    <<"k","v","k","k">>,
    <<"k","i","s","i","s","e","l","-","v","e","r","i">>,
    <<"k","i","s-cedilla","i","s","e","l","-","v","e","r","i">>,
    <<"k","i","s","i","s","e","l","_","v","e","r","i">>,
    <<"s","o","z","l","e","s","m","e">>,
    <<"s","o-diaeresis","z","l","e","s-cedilla","m","e">>,
    <<"k","o","s","u","l">>,
    <<"k","o","s-cedilla","u","l">>,
    <<"s","a","r","t">>,
    <<"s-cedilla","a","r","t">>,
    <<"a","y","d","i","n","l","a","t","m","a">>,
    <<"a","y","d","dotless-i","n","l","a","t","m","a">>,
    <<"c","e","r","e","z">>,
    <<"c-cedilla","e","r","e","z">>,
    <<"p","o","l","i","t","i","k","a">>,
    <<"p","o","l","i","t","i","k","a","s","i">>,
    <<"k","u","l","l","a","n","i","m","-","s","a","r","t","l","a","r","i">>,
    <<"k","u","l","l","a","n","i","m","-","k","o","s","u","l","l","a","r","i">>,
    <<"p","r","i","v","a","c","y">>,
    <<"p","o","l","i","c","y">>,
    <<"t","e","r","m","s">>,
    <<"c","o","n","d","i","t","i","o","n","s">>,
    <<"l","e","g","a","l">>,
    <<"d","i","s","c","l","a","i","m","e","r">>,
    <<"c","o","o","k","i","e">>,
    <<"g","d","p","r">>,
    <<"a","g","r","e","e","m","e","n","t">>,
    <<"c","o","n","t","r","a","c","t">>,
    <<"c","o","m","p","l","i","a","n","c","e">>,
    <<"t","e","r","m","s","-","o","f","-","s","e","r","v","i","c","e">>,
    <<"t","e","r","m","s","-","o","f","-","u","s","e">>,
    <<"p","r","i","v","a","c","y","-","p","o","l","i","c","y">>,
    <<"e","t","i","k">>,
    <<"d","a","v","r","a","n","i","s">>,
    <<"d","a","v","r","a","n","dotless-i","s-cedilla">>,
    <<"f","i","n","a","n","s","a","l">>,
    <<"f","a","a","l","i","y","e","t","-","r","a","p","o","r">>,
    <<"s","u","r","d","u","r","u","l","e","b","i","l","i","r","l","i","k">>,
    <<"s","u-diaeresis","r","d","u-diaeresis","r","u-diaeresis","l","e","b","i","l","i","r","l","i","k">>,
    <<"s","u","s","t","a","i","n","a","b","i","l","i","t","y">>,
    <<"a","n","n","u","a","l","-","r","e","p","o","r","t">>,
    <<"i","n","v","e","s","t","o","r">>,
    <<"y","a","t","i","r","i","m","c","i">>,
    <<"v","i","z","y","o","n">>,
    <<"m","i","s","y","o","n">>,
    <<"d","e","g","e","r","l","e","r">>,
    <<"d","e","g-breve","e","r","l","e","r">>,
    <<"k","u","r","u","m","s","a","l">>,
    <<"s","e","r","t","i","f","i","k","a">>,
    <<"c","e","r","t","i","f","i","c","a","t","e">>,
    <<"c","e","r","t","i","f","i","c","a","t","i","o","n">>,
    <<"a","c","c","r","e","d","i","t","a","t","i","o","n">>,
    <<"t","s","e","_","e","n">>,
    <<"t","s","e","-","e","n">>,
    <<"t","s","_","e","n">>,
    <<"t","s","-","e","n">>,
    <<"i","s","o","9","0","0","1">>,
    <<"i","s","o","1","4","0","0","1">>,
    <<"i","s","o","4","5","0","0","1">>,
    <<"i","s","o","5","0","0","0","1">>,
    <<"i","s","o","2","7","0","0","1">>,
    <<"i","s","o","_","9","0","0","1">>,
    <<"i","s","o","_","1","4","0","0","1">>,
    <<"i","s","o","_","4","5","0","0","1">>,
    <<"i","s","o","_","5","0","0","0","1">>,
    <<"i","s","o","_","2","7","0","0","1">>,
    <<"i","s","o","-","9","0","0","1">>,
    <<"i","s","o","-","1","4","0","0","1">>,
    <<"i","s","o","-","4","5","0","0","1">>,
    <<"i","s","o","-","5","0","0","0","1">>,
    <<"i","s","o","-","2","7","0","0","1">>,
    <<"o","h","s","a","s">>,
    <<"o","h","s","a","s","_","1","8","0","0","1">>,
    <<"o","h","s","a","s","-","1","8","0","0","1">>,
    <<"t","s","_","1","3">>,
    <<"t","s","-","1","3">>,
    <<"t","s","1","3">>,
    <<"t","s","_","1","4">>,
    <<"t","s","-","1","4">>,
    <<"t","s","1","4">>,
    <<"o","n","a","y">>,
    <<"o","n","a","y","dotless-i">>,
    <<"a","p","p","r","o","v","a","l">>,
    <<"b","e","l","g","e","s","i">>,
    <<"e","p","d">>,
    <<"e","p","d","_">>,
    <<"e","p","d","-">>,
    <<"_","e","p","d">>,
    <<"-","e","p","d">>,
    <<"f","d","e","s">>,
    <<"f","d","e","s","_">>,
    <<"f","d","e","s","-">>,
    <<"u","p","e","c">>,
    <<"w","a","l","l","p","e","c">>,
    <<"p","e","c","_">>,
    <<"e","n","v","i","r","o","n","m","e","n","t","a","l","-","p","r","o","d","u","c","t">>,
    <<"e","n","v","i","r","o","n","m","e","n","t","a","l","_","p","r","o","d","u","c","t">>,
    <<"d","e","c","l","a","r","a","t","i","o","n">>,
    <<"b","e","y","a","n">>,
    <<"p","e","r","f","o","r","m","a","n","s","_","b","e","y","a","n">>,
    <<"p","e","r","f","o","r","m","a","n","s","-","b","e","y","a","n">>,
    <<"d","o","p">>,
    <<"d","e","c","l","a","r","a","t","i","o","n","-","o","f","-","p","e","r","f","o","r","m","a","n","c","e">>,
    <<"d","e","c","l","a","r","a","t","i","o","n","_","o","f","_","p","e","r","f","o","r","m","a","n","c","e">>,
    <<"r","a","p","o","r">>,
    <<"r","e","p","o","r","t">>,
    <<"a","n","n","u","a","l">>,
    <<"y","i","l","l","i","k">>,
    <<"y","dotless-i","l","l","dotless-i","k">>,
    <<"s","u","n","u","m">>,
    <<"p","r","e","s","e","n","t","a","t","i","o","n">>,
    <<"c","o","r","p","o","r","a","t","e">>,
    <<"h","a","k","k","i","m","i","z","d","a">>,
    <<"k","a","r","i","y","e","r">>,
    <<"c","a","r","e","e","r">>,
    <<"i","n","s","a","n","-","k","a","y","n","a","k","l","a","r","i">>,
    <<"t","e","s","t","-","r","a","p","o","r","u">>,
    <<"t","e","s","t","_","r","a","p","o","r","u">>,
    <<"m","u","a","y","e","n","e">>,
    <<"d","e","n","e","y","i">>,
    <<"d","e","n","e","y">>,
    <<"p","r","o","s","e","d","u","r">>,
    <<"p","r","o","s","e","d","u-diaeresis","r">>,
    <<"p","r","o","c","e","d","u","r","e">>,
    <<"p","r","o","s","e","d","u","r","e","l">>,
    <<"s","i","k","a","y","e","t">>,
    <<"s-cedilla","i","k","a","y","e","t">>,
    <<"c","o","m","p","l","a","i","n","t">>,
    <<"m","e","k","a","n","i","z","m","a">>,
    <<"m","e","c","h","a","n","i","s","m">>,
    <<"m","a","t","r","i","s">>,
    <<"m","a","t","r","i","s","i">>,
    <<"m","a","t","r","i","x">>,
    <<"p","a","y","d","a","s">>,
    <<"p","a","y","d","a","s-cedilla">>,
    <<"s","t","a","k","e","h","o","l","d","e","r">>,
    <<"k","a","t","i","l","i","m">>,
    <<"k","a","t","dotless-i","l","dotless-i","m">>,
    <<"p","a","r","t","i","c","i","p","a","t","i","o","n">>,
    <<"i","l","e","t","i","s","i","m","_","m","a","t","r","i","s","i">>,
    <<"i","l","e","t","i","s-cedilla","i","m","_","m","a","t","r","i","s","i">>,
    <<"y","e","r","l","i","_","m","a","l","i">>,
    <<"y","e","r","l","i","-","m","a","l","i">>,
    <<"y","e","r","l","i","_","m","a","l">>,
    <<"y","e","r","l","i","-","m","a","l">>,
    <<"y","e","t","e","r","l","i","l","i","k">>,
    <<"h","i","z","m","e","t","_","y","e","t","e","r","l","i","l","i","k">>,
    <<"i","n","t","e","r","s","e","r","o","h">>,
    <<"k","u","l","l","a","n","i","m","-","k","i","l","a","v","u","z","u">>,
    <<"k","u","l","l","a","n","i","m","_","k","i","l","a","v","u","z","u">>,
    <<"k","u","l","l","a","n","dotless-i","m","-","k","dotless-i","l","a","v","u","z","u">>,
    <<"k","i","l","a","v","u","z">>,
    <<"k","dotless-i","l","a","v","u","z">>,
    <<"m","a","n","u","a","l">>,
    <<"i","n","s","t","r","u","c","t","i","o","n">>,
    <<"t","a","l","i","m","a","t">>,
    <<"t","a","l","i","m","a","t","i">>,
    <<"m","o","n","t","a","j">>,
    <<"i","n","s","t","a","l","l","a","t","i","o","n">>,
    <<"b","a","s","i","n">>,
    <<"b","a","s","dotless-i","n">>,
    <<"p","r","e","s","s">>,
    <<"h","a","b","e","r">>,
    <<"d","u","y","u","r","u">>,
    <<"r","e","a","c","h">>,
    <<"e","n","t","e","g","r","e","_","y","o","n","e","t","i","m">>,
    <<"e","n","t","e","g","r","e","-","y","o","n","e","t","i","m">>,
    <<"y","o","n","e","t","i","m","_","s","i","s","t","e","m","i">>,
    <<"y","o-diaeresis","n","e","t","i","m","_","s","i","s","t","e","m","i">>,
    <<"g","e","n","e","l","_","k","u","r","u","l">>,
    <<"g","e","n","e","l","-","k","u","r","u","l">>,
    <<"g","e","n","e","l","_","k","u","r","u","l","u","n">>,
    <<"t","o","p","l","a","n","t","i","_","t","u","t","a","n","a","k">>,
    <<"v","e","k","a","l","e","t","e","n">>,
    <<"o","y","-","k","u","l","l","a","n","m","a">>,
    <<"o","y","_","k","u","l","l","a","n","m","a">>,
    <<"v","e","k","a","l","e","t">>,
    <<"y","o","n","e","t","i","m","-","k","u","r","u","l","u">>,
    <<"y","o","n","e","t","i","m","_","k","u","r","u","l","u">>,
    <<"y","o","n","e","t","i","c","i">>,
    <<"o","z","g","e","c","m","i","s">>,
    <<"o-diaeresis","z","g","e","c-cedilla","m","i","s-cedilla">>,
    <<"o","z","g","e","c","m","i","s","l","e","r">>,
    <<"o-diaeresis","z","g","e","c-cedilla","m","i","s-cedilla","l","e","r">>,
    <<"i","c","_","y","o","n","e","r","g","e">>,
    <<"i","c","-","y","o","n","e","r","g","e">>,
    <<"y","o","n","e","r","g","e">>,
    <<"y","o-diaeresis","n","e","r","g","e">>,
    <<"b","a","g","i","m","s","i","z","l","i","k">>,
    <<"b","a","g-breve","dotless-i","m","s","dotless-i","z","l","dotless-i","k">>,
    <<"b","a","g","i","m","s","i","z">>,
    <<"b","a","g-breve","dotless-i","m","s","dotless-i","z">>,
    <<"e","s","a","s","_","s","o","z","l","e","s","m","e">>,
    <<"e","s","a","s","-","s","o","z","l","e","s","m","e">>,
    <<"e","s","a","s","_","s","o-diaeresis","z","l","e","s-cedilla","m","e">>,
    <<"c","e","v","r","e","-","v","e","-","i","k","l","i","m">>,
    <<"c","e","v","r","e","_","v","e","_","i","k","l","i","m">>,
    <<"c","e","v","r","e","-","i","k","l","i","m">>,
    <<"i","k","l","i","m">>,
    <<"e","n","e","r","j","i","_","y","o","n","e","t","i","m","i">>,
    <<"e","n","e","r","j","i","-","y","o","n","e","t","i","m","i">>,
    <<"e","n","e","r","j","i","_","y","o","n","e","t","i","m">>,
    <<"k","a","r","b","o","n">>,
    <<"c","a","r","b","o","n">>,
    <<"e","m","i","s","y","o","n">>,
    <<"e","m","i","s","s","i","o","n">>
  >>

(***************************************************************************)
(* The pages the function-level specifications draw from                   *)
(***************************************************************************)

\* "https://x.com"
BaseUrl ==
  <<"h","t","t","p","s",":","/","/","x",".","c","o","m">>
\* "/katalog/urunler-2024.pdf"
HrefCatalog ==
  <<"/","k","a","t","a","l","o","g","/","u","r","u","n","l","e","r","-","2","0","2","4",".","p","d","f">>
\* "\xdcr\xfcn Katalo\u011fu"
TextCatalog ==
  <<"U-diaeresis","r","u-diaeresis","n"," ","K","a","t","a","l","o","g-breve","u">>
\* "/gizlilik-politikasi.pdf"
HrefPrivacy ==
  <<"/","g","i","z","l","i","l","i","k","-","p","o","l","i","t","i","k","a","s","i",".","p","d","f">>
\* "Gizlilik Politikas\u0131"
TextPrivacy ==
  <<"G","i","z","l","i","l","i","k"," ","P","o","l","i","t","i","k","a","s","dotless-i">>
\* "/katalog/urunler-2024.pdf?dl=1"
HrefCatalogQuery ==
  <<"/","k","a","t","a","l","o","g","/","u","r","u","n","l","e","r","-","2","0","2","4",".","p","d","f","?","d","l","=","1">>
\* " \u0130ndir "
TextDownload ==
  <<" ","I-dot","n","d","i","r"," ">>
\* "/Katalog/KVKK.PDF"
HrefKvkkCatalog ==
  <<"/","K","a","t","a","l","o","g","/","K","V","K","K",".","P","D","F">>
\* "/docs/a.pdf"
HrefPlain ==
  <<"/","d","o","c","s","/","a",".","p","d","f">>
\* "/docs/a.pdf?v=2"
HrefPlainQuery ==
  <<"/","d","o","c","s","/","a",".","p","d","f","?","v","=","2">>
\* "Fiyat Listesi"
TextPriceList ==
  <<"F","i","y","a","t"," ","L","i","s","t","e","s","i">>
\* "/docs/b.doc"
HrefPlainDoc ==
  <<"/","d","o","c","s","/","b",".","d","o","c">>
\* "Legal Catalog"
TextLegal ==
  <<"L","e","g","a","l"," ","C","a","t","a","l","o","g">>
\* "files/BROSUR.PDF?v=2"
HrefBrochure ==
  <<"f","i","l","e","s","/","B","R","O","S","U","R",".","P","D","F","?","v","=","2">>
\* "/indir/view/"
HrefViewer ==
  <<"/","i","n","d","i","r","/","v","i","e","w","/">>
\* "https://cdn.x.com/download/price-list.xlsx"
HrefAbsolute ==
  <<"h","t","t","p","s",":","/","/","c","d","n",".","x",".","c","o","m","/","d","o","w","n","l","o","a","d","/","p","r","i","c","e","-","l","i","s","t",".","x","l","s","x">>
\* "a.pdf"
HrefShort ==
  <<"a",".","p","d","f">>
\* "/katalog/urun/product-catalog.pdf"
HrefProduct ==
  <<"/","k","a","t","a","l","o","g","/","u","r","u","n","/","p","r","o","d","u","c","t","-","c","a","t","a","l","o","g",".","p","d","f">>
\* "/page.html"
HrefPage ==
  <<"/","p","a","g","e",".","h","t","m","l">>

Elem(tag, url, data, text) == [tag |-> tag, url |-> url, data |-> data, text |-> text]

ElemCatalog == Elem("a", HrefCatalog, <<>>, TextCatalog)
ElemPrivacy == Elem("a", HrefPrivacy, <<>>, TextPrivacy)

\* The elements pages are made of.
Elements ==
  << ElemCatalog,
     ElemPrivacy,
     Elem("a", HrefCatalogQuery, <<>>, TextDownload),
     Elem("a", HrefKvkkCatalog, <<>>, TextCatalog),
     Elem("a", HrefPlain, <<>>, <<>>),
     Elem("a", HrefPlainQuery, <<>>, TextPriceList),
     Elem("a", HrefPlainDoc, <<>>, TextLegal),
     Elem("a", HrefPage, HrefCatalog, TextDownload),
     Elem("onclick", HrefBrochure, <<>>, <<>>),
     Elem("data-pdf", HrefViewer, <<>>, TextCatalog),
     Elem("embed", HrefAbsolute, <<>>, <<>>),
     Elem("script", HrefShort, <<>>, <<>>),
     Elem("script", HrefProduct, <<>>, <<>>) >>

(***************************************************************************)
(* utils/file_downloader.py: the URL classifier                            *)
(***************************************************************************)

\* combined = f"{url_lower} {text_lower}"
Combined(url, link_text) == Lower(url) \o <<" ">> \o Lower(link_text)

\* The position in PDF_NEGATIVE_KEYWORDS of the first keyword the loop of
\* should_download_url finds in combined, 0 when the loop ends without one.
FirstNegative(combined) ==
  LET hits == {i \in DOMAIN PDF_NEGATIVE_KEYWORDS :
                 Contains(combined, PDF_NEGATIVE_KEYWORDS[i])}
  IN IF hits = {} THEN 0 ELSE Min(hits)

\* should_download_url with the keyword checks in the other order.
should_download_url_positive_first(url, link_text) ==
  LET combined == Combined(url, link_text)
      neg == FirstNegative(combined)
      has_positive == \E i \in DOMAIN PDF_POSITIVE_KEYWORDS :
                         Contains(combined, PDF_POSITIVE_KEYWORDS[i])
  IN IF has_positive
       THEN [ok |-> TRUE, reason |-> <<"Has positive keyword", 0>>]
       ELSE IF neg # 0
              THEN [ok |-> FALSE, reason |-> <<"Negative keyword", neg>>]
              ELSE [ok |-> TRUE, reason |-> <<"No blocking keywords", 0>>]

should_download_url(url, link_text) ==
  LET combined == Combined(url, link_text)
      neg == FirstNegative(combined)
      has_positive == \E i \in DOMAIN PDF_POSITIVE_KEYWORDS :
                         Contains(combined, PDF_POSITIVE_KEYWORDS[i])
  IN IF neg # 0
       THEN [ok |-> FALSE, reason |-> <<"Negative keyword", neg>>]
       ELSE IF has_positive
              THEN [ok |-> TRUE, reason |-> <<"Has positive keyword", 0>>]
              ELSE [ok |-> TRUE, reason |-> <<"No blocking keywords", 0>>]

Max2(a, b) == IF a >= b THEN a ELSE b
Min2(a, b) == IF a <= b THEN a ELSE b

\* score when get_url_score reaches its return statement.
UrlScoreBeforeClamp(url, link_text) ==
  LET url_lower == Lower(url)
      combined == Combined(url, link_text)
      s0 == 50
      s1 == IF FirstNegative(combined) # 0 THEN s0 - 60 ELSE s0
      positive_matches ==
        Cardinality({i \in DOMAIN PDF_POSITIVE_KEYWORDS :
                       Contains(combined, PDF_POSITIVE_KEYWORDS[i])})
      s2 == s1 + positive_matches * 15
      s3 == IF \/ Contains(url_lower, <<"/","c","a","t","a","l","o","g">>)
               \/ Contains(url_lower, <<"/","k","a","t","a","l","o","g">>)
              THEN s2 + 20 ELSE s2
      s4 == IF \/ Contains(url_lower, <<"/","p","r","o","d","u","c","t">>)
               \/ Contains(url_lower, <<"/","u","r","u","n">>)
              THEN s3 + 15 ELSE s3
  IN IF \/ Contains(url_lower, <<"/","d","o","w","n","l","o","a","d">>)
        \/ Contains(url_lower, <<"/","i","n","d","i","r">>)
       THEN s4 + 10 ELSE s4

\* get_url_score returning score as it is.
get_url_score_unclamped(url, link_text) == UrlScoreBeforeClamp(url, link_text)

get_url_score(url, link_text) ==
  Max2(0, Min2(100, UrlScoreBeforeClamp(url, link_text)))

(***************************************************************************)
(* The web the batch runs against: two sites, their pages, and the         *)
(* companies of the input file.                                            *)
(***************************************************************************)

SiteX == BaseUrl

SiteY == <<"h","t","t","p","s",":","/","/","y",".","o","r","g">>

PathKatalog == <<"/","k","a","t","a","l","o","g">>
PathArsiv == <<"/","k","a","t","a","l","o","g","/","a","r","s","i","v">>
PathIletisim == <<"/","i","l","e","t","i","s","i","m">>
PathSitemap == <<"/","s","i","t","e","m","a","p",".","x","m","l">>

TextKataloglar == <<"K","a","t","a","l","o","g","l","a","r">>
TextArsiv == <<"A","r","s-cedilla","i","v">>
TextIletisim == <<"I-dot","l","e","t","i","s-cedilla","i","m">>

PhoneX == <<"+","9","0"," ","2","1","2"," ","5","5","5"," ","0","0"," ","0","0">>
EmailX == <<"i","n","f","o","@","x",".","c","o","m">>

NoContact == [phone |-> <<>>, email |-> <<>>, address |-> <<>>]

\* What a fetched URL gives: the elements of the document, the contact
\* fields extract_contact_info finds in it, and the <loc> entries when it is a
\* sitemap.
WebPage(url, soup, contact_info, locs) ==
  [url |-> url, soup |-> soup, contact |-> contact_info, locs |-> locs]

Web ==
  { \* site X: a catalog and a privacy policy on the main page, a catalog page
    \* with a sub-page, a contact page, a sitemap
    WebPage(SiteX,
            <<ElemCatalog, ElemPrivacy,
              Elem("a", PathKatalog, <<>>, TextKataloglar),
              Elem("a", PathIletisim, <<>>, TextIletisim)>>,
            [NoContact EXCEPT !.email = EmailX], <<>>),
    WebPage(SiteX \o PathKatalog,
            <<Elem("a", HrefCatalogQuery, <<>>, TextDownload),
              Elem("a", PathArsiv, <<>>, TextArsiv)>>,
            NoContact, <<>>),
    WebPage(SiteX \o PathArsiv,
            <<Elem("a", HrefPlain, <<>>, TextPriceList)>>,
            NoContact, <<>>),
    WebPage(SiteX \o PathIletisim, <<>>,
            [NoContact EXCEPT !.phone = PhoneX], <<>>),
    WebPage(SiteX \o PathSitemap, <<>>, NoContact,
            <<SiteX \o PathKatalog, SiteX \o PathArsiv, SiteX \o PathIletisim>>),
    \* site Y: one document, linked with a text that has a negative keyword,
    \* and no contact fields
    WebPage(SiteY,
            <<Elem("a", HrefPlain, <<>>, TextLegal)>>,
            NoContact, <<>>) }

\* The documents of the sites: the content a download of the URL gives.
Files ==
  { [url |-> SiteX \o HrefCatalog, content |-> <<"urunler-2024">>],
    [url |-> SiteX \o HrefCatalogQuery, content |-> <<"urunler-2024">>],
    [url |-> SiteX \o HrefPlain, content |-> <<"fiyat">>],
    [url |-> SiteY \o HrefPlain, content |-> <<"legal-catalog">>] }

Exists(url) == \E p \in Web : p.url = url

PageAt(url) == CHOOSE p \in Web : p.url = url

\* The companies of the input file: name and website ("" for none).
Company(company_name, website) == [company_name |-> company_name, website |-> website]

Acme == Company(<<"A","c","m","e">>, SiteX)
Bolt == Company(<<"B","o","l","t"," ","A",".","S",".">>, <<"y",".","o","r","g">>)
Dara == Company(<<"D","a","r","a">>, <<>>)

CompanyChoices == {Acme, Bolt, Dara}

(***************************************************************************)
(* scrapers/base_scraper.py: URL resolution                                *)
(***************************************************************************)

\* urljoin of a site root (scheme://netloc) and a reference that is a path:
\* an absolute path replaces the (empty) path of the base, a relative one is
\* resolved against the root directory.
resolve_url(base_url, relative_url) ==
  IF \/ StartsWith(relative_url, <<"h","t","t","p",":","/","/">>)
     \/ StartsWith(relative_url, <<"h","t","t","p","s",":","/","/">>)
    THEN relative_url
    ELSE IF relative_url # <<>> /\ Head(relative_url) = "/"
           THEN base_url \o relative_url
           ELSE base_url \o <<"/">> \o relative_url

\* The (url, link text) references of a page, resolved as add_candidate
\* resolves them.
RefsOf(e, base_url) ==
  LET text == IF e.tag \in {"embed", "script"} THEN <<>> ELSE Strip(e.text)
  IN {[url |-> resolve_url(base_url, e.url), text |-> text]}
       \cup (IF e.tag = "a" /\ e.data # <<>>
               THEN {[url |-> resolve_url(base_url, e.data), text |-> text]}
               ELSE {})

Refs(soup, base_url) == UNION {RefsOf(soup[i], base_url) : i \in DOMAIN soup}

\* The references of Elements and of the pages of Web
ElementRefs == UNION {RefsOf(Elements[i], BaseUrl) : i \in DOMAIN Elements}

WebRefs == UNION {Refs(p.soup, site) : p \in Web, site \in {SiteX, SiteY}}

KnownUrls == {r.url : r \in ElementRefs \cup WebRefs}

\* The pairs the classifier is asked about: a URL of Elements with a link
\* text of Elements, a reference of Web, a URL with the empty link text.
KnownPairs ==
  {[url |-> u.url, text |-> t.text] : u \in ElementRefs, t \in ElementRefs}
    \cup WebRefs
    \cup {[url |-> u, text |-> <<>>] : u \in KnownUrls}

\* The classifier's answers for the known pairs, each computed once.
ShouldDownloadOf == [p \in KnownPairs |-> should_download_url(p.url, p.text)]

UrlScoreOf == [p \in KnownPairs |-> get_url_score(p.url, p.text)]

\* self.downloader.should_download_url(url, link_text)
downloader_should_download_url(url, link_text) ==
  LET p == [url |-> url, text |-> link_text]
  IN IF p \in KnownPairs THEN ShouldDownloadOf[p]
     ELSE should_download_url(url, link_text)

\* self.downloader.get_url_score(url, link_text)
downloader_get_url_score(url, link_text) ==
  LET p == [url |-> url, text |-> link_text]
  IN IF p \in KnownPairs THEN UrlScoreOf[p] ELSE get_url_score(url, link_text)

(***************************************************************************)
(* scrapers/base_scraper.py, scrapers/generic_scraper.py: link extraction  *)
(***************************************************************************)

has_valid_extension(url) ==
  LET url_lower == BeforeQuery(Lower(url))
  IN \E i \in DOMAIN VALID_EXTENSIONS : EndsWith(url_lower, VALID_EXTENSIONS[i])

\* add_candidate(url, link_text): what the call appends to catalog_candidates,
\* the one candidate (full_url, score, link_text) when the classifier lets the
\* URL through, nothing otherwise.
add_candidate(base_url, url, link_text) ==
  IF url = <<>>
    THEN <<>>
    ELSE LET full_url == resolve_url(base_url, url)
         IN IF downloader_should_download_url(full_url, link_text).ok
              THEN << [url |-> full_url,
                       score |-> downloader_get_url_score(full_url, link_text),
                       text |-> link_text] >>
              ELSE <<>>

\* A parsed page, as far as extract_catalog_links reads it: the elements in
\* document order. tag "a" is an anchor with href = url, link text = text and a
\* data-href attribute = data (<<>> when absent); "onclick" is a button, div or
\* span whose onclick handler opens url; "data-pdf" and "data-file-url" are
\* elements carrying that attribute; "embed" is an embed, object or iframe
\* with src = url; "script" is an inline script quoting url.
Tags == {"a", "onclick", "data-pdf", "data-file-url", "embed", "script"}

\* The add_candidate calls one element makes in one of the six loops of
\* extract_catalog_links: (url, link_text), in the order of the calls.
CallsOf(pass, e) ==
  LET text == Strip(e.text)
      Call(url, link_text) == << [url |-> url, text |-> link_text] >>
  IN CASE pass = "a" /\ e.tag = "a" ->
            (IF has_valid_extension(e.url) THEN Call(e.url, text) ELSE <<>>)
            \o (IF e.data # <<>> /\ has_valid_extension(e.data)
                  THEN Call(e.data, text) ELSE <<>>)
       [] pass = "onclick" /\ e.tag = "onclick" ->
            IF has_valid_extension(e.url) THEN Call(e.url, text) ELSE <<>>
       [] pass = "data-pdf" /\ e.tag = "data-pdf" -> Call(e.url, text)
       [] pass = "data-file-url" /\ e.tag = "data-file-url" -> Call(e.url, text)
       [] pass = "embed" /\ e.tag = "embed" ->
            IF e.url # <<>> /\ has_valid_extension(e.url) THEN Call(e.url, <<>>) ELSE <<>>
       [] pass = "script" /\ e.tag = "script" ->
            IF /\ EndsWith(Lower(e.url), <<".","p","d","f">>)
               /\ has_valid_extension(e.url)
               /\ Len(e.url) > 10
              THEN Call(e.url, <<>>) ELSE <<>>
       [] OTHER -> <<>>

\* What the calls add to catalog_candidates
RECURSIVE AddCandidates(_, _)
AddCandidates(base_url, calls) ==
  IF calls = <<>> THEN <<>>
  ELSE add_candidate(base_url, Head(calls).url, Head(calls).text)
         \o AddCandidates(base_url, Tail(calls))

\* What one element adds to catalog_candidates in one of the six loops.
CandidatesOf(pass, e, base_url) == AddCandidates(base_url, CallsOf(pass, e))

\* One loop of extract_catalog_links over the elements of its kind, in
\* document order (find_all), from element i on.
RECURSIVE ScanPass(_, _, _, _)
ScanPass(pass, soup, base_url, i) ==
  IF i > Len(soup) THEN <<>>
  ELSE CandidatesOf(pass, soup[i], base_url) \o ScanPass(pass, soup, base_url, i + 1)

Passes == <<"a", "onclick", "data-pdf", "data-file-url", "embed", "script">>

\* catalog_candidates when the six loops are done.
RECURSIVE CollectFrom(_, _, _)
CollectFrom(k, soup, base_url) ==
  IF k > Len(Passes) THEN <<>>
  ELSE ScanPass(Passes[k], soup, base_url, 1) \o CollectFrom(k + 1, soup, base_url)

CollectCandidates(soup, base_url) == CollectFrom(1, soup, base_url)

\* A sort that puts a candidate before those of equal score.
RECURSIVE InsertByScoreBeforeEqual(_, _)
InsertByScoreBeforeEqual(sorted, c) ==
  IF sorted = <<>> THEN <<c>>
  ELSE IF Head(sorted).score > c.score
         THEN <<Head(sorted)>> \o InsertByScoreBeforeEqual(Tail(sorted), c)
         ELSE <<c>> \o sorted

\* list.sort(key=score, reverse=True): stable, equal scores keep their order.
RECURSIVE InsertByScore(_, _)
InsertByScore(sorted, c) ==
  IF sorted = <<>> THEN <<c>>
  ELSE IF Head(sorted).score >= c.score
         THEN <<Head(sorted)>> \o InsertByScore(Tail(sorted), c)
         ELSE <<c>> \o sorted

RECURSIVE SortByScore(_, _)
SortByScore(cands, sorted) ==
  IF cands = <<>> THEN sorted
  ELSE SortByScore(Tail(cands), InsertByScore(sorted, Head(cands)))

\* normalized_url = url.split('?')[0].rstrip('/')
NormalizeUrl(url) == RStripSlash(BeforeQuery(url))

RECURSIVE Deduplicate(_, _, _)
Deduplicate(sorted, seen_urls, result) ==
  IF sorted = <<>> THEN result
  ELSE LET normalized_url == NormalizeUrl(Head(sorted).url)
       IN IF normalized_url \notin seen_urls
            THEN Deduplicate(Tail(sorted), seen_urls \cup {normalized_url},
                             Append(result, Head(sorted).url))
            ELSE Deduplicate(Tail(sorted), seen_urls, result)

extract_catalog_links(soup, base_url) ==
  Deduplicate(SortByScore(CollectCandidates(soup, base_url), <<>>), {}, <<>>)

(***************************************************************************)
(* config/settings.py, utils/validators.py, utils/excel_writer.py:         *)
(* the result status rules and the persistence gate                        *)
(***************************************************************************)

STATUS_SUCCESS == "SUCCESS"
STATUS_PARTIAL == "PARTIAL"
STATUS_FAILED == "FAILED"
STATUS_ERROR == "ERROR"

EXCEL_COLUMNS ==
  <<"company_name", "website", "sector", "phone", "email", "address",
    "catalog_count", "catalog_files", "status", "scrape_date">>

\* A Python dict of company data: keys is the set of keys it has, nones the
\* keys whose value is None, and each field holds the value of its key (the
\* value of the empty dict where the key is missing or None).
EmptyDict ==
  [keys |-> {}, nones |-> {},
   company_name |-> <<>>, website |-> <<>>, sector |-> <<>>,
   phone |-> <<>>, email |-> <<>>, address |-> <<>>,
   catalog_count |-> 0, catalog_files |-> <<>>,
   status |-> "", scrape_date |-> <<>>, downloaded_catalogs |-> <<>>]

\* key in d, and d[key] is not None
Has(d, key) == key \in d.keys /\ key \notin d.nones

\* bool(d.get(key, '')) for a string or a list
Truthy(d, key) == Has(d, key) /\ d[key] # <<>>

\* company_data.get('catalog_count', 0)
GetCount(d) == IF "catalog_count" \in d.keys THEN d.catalog_count ELSE 0

\* company_data.get('status', '')
GetStatus(d) == IF "status" \in d.keys THEN d.status ELSE ""

validate_catalog_exists(company_data) ==
  IF GetCount(company_data) > 0 THEN TRUE
  ELSE IF Truthy(company_data, "catalog_files") /\ Len(company_data.catalog_files) > 0
         THEN TRUE
  ELSE IF /\ Truthy(company_data, "downloaded_catalogs")
          /\ Len(company_data.downloaded_catalogs) > 0
         THEN TRUE
  ELSE FALSE

\* validate_company_data without the catalog check.
validate_company_data_status_only(company_data) ==
  GetStatus(company_data) \notin {STATUS_FAILED, STATUS_ERROR}

validate_company_data(company_data) ==
  IF GetStatus(company_data) \in {STATUS_FAILED, STATUS_ERROR} THEN FALSE
  ELSE IF ~validate_catalog_exists(company_data) THEN FALSE
  ELSE TRUE

\* determine_status that looks at the contact flag first.
determine_status_contact_first(catalog_count, has_contact) ==
  IF has_contact THEN STATUS_SUCCESS
  ELSE IF catalog_count = 0 THEN STATUS_FAILED
  ELSE STATUS_PARTIAL

determine_status(catalog_count, has_contact) ==
  IF catalog_count = 0 THEN STATUS_FAILED
  ELSE IF has_contact THEN STATUS_SUCCESS
  ELSE STATUS_PARTIAL

has_contact_info(company_data) ==
  IF Truthy(company_data, "phone") /\ Strip(company_data.phone) # <<>> THEN TRUE
  ELSE IF Truthy(company_data, "email") /\ Strip(company_data.email) # <<>> THEN TRUE
  ELSE FALSE

\* ', '.join(value)
RECURSIVE JoinComma(_)
JoinComma(list) ==
  IF list = <<>> THEN <<>>
  ELSE IF Len(list) = 1 THEN Head(list)
  ELSE Head(list) \o <<",", " ">> \o JoinComma(Tail(list))

\* datetime.now().strftime('%Y-%m-%d %H:%M'): the time of the call, as text
Now == <<"n", "o", "w">>

\* ExcelWriter._prepare_data: the row with the columns of EXCEL_COLUMNS, a
\* missing or None value empty, the list of catalog files joined, the date
\* filled in.
prepare_data(company_data) ==
  LET Text(key) == IF Has(company_data, key) THEN company_data[key] ELSE <<>>
  IN [company_name |-> Text("company_name"),
      website |-> Text("website"),
      sector |-> Text("sector"),
      phone |-> Text("phone"),
      email |-> Text("email"),
      address |-> Text("address"),
      catalog_count |-> IF "catalog_count" \in company_data.keys
                          THEN <<company_data.catalog_count>> ELSE <<>>,
      catalog_files |-> IF Has(company_data, "catalog_files")
                          THEN JoinComma(company_data.catalog_files) ELSE <<>>,
      status |-> GetStatus(company_data),
      scrape_date |-> IF Truthy(company_data, "scrape_date")
                        THEN company_data.scrape_date ELSE Now]

\* ExcelWriter.append_company: the gate, then the row is added to
\* pending_data. The value is <<returned flag, pending_data after the call>>.
append_company(pending, company_data) ==
  IF ~validate_company_data(company_data)
    THEN [added |-> FALSE, pending_data |-> pending]
    ELSE [added |-> TRUE,
          pending_data |-> Append(pending, prepare_data(company_data))]

(***************************************************************************)
(* Function-level specification of the classifier and the extractor: a     *)
(* page is drawn from Elements, the operations are applied to it.          *)
(***************************************************************************)

\* Longest page, in elements.
MaxElems == 2

Pages ==
  UNION {[1..n -> {Elements[i] : i \in DOMAIN Elements}] : n \in 1..MaxElems}

InitExtract ==
  /\ input \in {[soup |-> p, base_url |-> BaseUrl] : p \in Pages}
  /\ op = "none"
  /\ arg = <<>>
  /\ ret = <<>>
  /\ pending_data = <<>>
  /\ ProgOff

\* downloader.should_download_url(url, link_text) on a URL and a link text of
\* the page.
ShouldDownloadUrl ==
  /\ op = "none"
  /\ \E r \in Refs(input.soup, input.base_url), t \in Refs(input.soup, input.base_url) :
      /\ op' = "should_download_url"
      /\ arg' = [url |-> r.url, text |-> t.text]
      /\ ret' = downloader_should_download_url(r.url, t.text)
      /\ UNCHANGED <<input, pending_data, progVars>>

\* downloader.get_url_score(url, link_text)
GetUrlScore ==
  /\ op = "none"
  /\ \E r \in Refs(input.soup, input.base_url), t \in Refs(input.soup, input.base_url) :
      /\ op' = "get_url_score"
      /\ arg' = [url |-> r.url, text |-> t.text]
      /\ ret' = downloader_get_url_score(r.url, t.text)
      /\ UNCHANGED <<input, pending_data, progVars>>

\* scraper.extract_catalog_links(soup, base_url)
ExtractCatalogLinks ==
  /\ op = "none"
  /\ op' = "extract_catalog_links"
  /\ arg' = input
  /\ ret' = extract_catalog_links(input.soup, input.base_url)
  /\ UNCHANGED <<input, pending_data, progVars>>

NextExtract == ShouldDownloadUrl \/ GetUrlScore \/ ExtractCatalogLinks

SpecExtract == InitExtract /\ [][NextExtract]_vars

(***************************************************************************)
(* Function-level specification of the status rules and the persistence    *)
(* gate: a company record is drawn, the operations are applied to it.      *)
(***************************************************************************)

\* Largest catalog_count of a drawn record.
MaxCount == 2

FileA == <<"a", ".", "p", "d", "f">>

PhoneA == <<"+", "9", "0", " ", "2", "1", "2">>

EmailA == <<"a", "@", "b", ".", "c", "o">>

\* The values a key of a drawn record takes: <<>> in "absent" is a missing
\* key, in "none" the value None.
Absent == [absent |-> TRUE, none |-> FALSE, v |-> <<>>]
None == [absent |-> FALSE, none |-> TRUE, v |-> <<>>]
Val(v) == [absent |-> FALSE, none |-> FALSE, v |-> v]

StatusChoices == {"SUCCESS", "PARTIAL", "FAILED", "ERROR", ""}
CountChoices == {<<n>> : n \in 0..MaxCount} \cup {<<>>}
FilesChoices == {Absent, None, Val(<<>>), Val(<<FileA>>)}
DownloadedChoices == {Absent, Val(<<>>), Val(<<FileA>>)}
PhoneChoices == {Absent, None, Val(<<>>), Val(<<" ">>), Val(PhoneA)}
EmailChoices == {Absent, Val(<<>>), Val(<<" ", "tab">>), Val(EmailA)}

\* The dict with the chosen values: status "" and count <<>> stand for a
\* missing key.
MakeDict(status, count, files, downloaded, phone, email) ==
  LET present == {"company_name"}
        \cup (IF status # "" THEN {"status"} ELSE {})
        \cup (IF count # <<>> THEN {"catalog_count"} ELSE {})
        \cup (IF files.absent THEN {} ELSE {"catalog_files"})
        \cup (IF downloaded.absent THEN {} ELSE {"downloaded_catalogs"})
        \cup (IF phone.absent THEN {} ELSE {"phone"})
        \cup (IF email.absent THEN {} ELSE {"email"})
      nones == (IF files.none THEN {"catalog_files"} ELSE {})
        \cup (IF phone.none THEN {"phone"} ELSE {})
  IN [EmptyDict EXCEPT !.keys = present, !.nones = nones,
        !.company_name = <<"A", "c", "m", "e">>,
        !.status = status,
        !.catalog_count = IF count # <<>> THEN count[1] ELSE 0,
        !.catalog_files = files.v,
        !.downloaded_catalogs = downloaded.v,
        !.phone = phone.v,
        !.email = email.v]

Dicts ==
  {MakeDict(s, c, f, d, p, e) :
     s \in StatusChoices, c \in CountChoices, f \in FilesChoices,
     d \in DownloadedChoices, p \in PhoneChoices, e \in EmailChoices}

InitValidators ==
  /\ input \in Dicts
  /\ op = "none"
  /\ arg = <<>>
  /\ ret = <<>>
  /\ pending_data = <<>>
  /\ ProgOff

\* determine_status(catalog_count, has_contact) on the count of the record
DetermineStatus ==
  /\ op = "none"
  /\ \E has_contact \in BOOLEAN :
      /\ op' = "determine_status"
      /\ arg' = [catalog_count |-> GetCount(input), has_contact |-> has_contact]
      /\ ret' = determine_status(GetCount(input), has_contact)
  /\ UNCHANGED <<input, pending_data, progVars>>

\* has_contact_info(company_data)
HasContactInfo ==
  /\ op = "none"
  /\ op' = "has_contact_info"
  /\ arg' = input
  /\ ret' = has_contact_info(input)
  /\ UNCHANGED <<input, pending_data, progVars>>

\* validate_company_data(company_data)
ValidateCompanyData ==
  /\ op = "none"
  /\ op' = "validate_company_data"
  /\ arg' = input
  /\ ret' = validate_company_data(input)
  /\ UNCHANGED <<input, pending_data, progVars>>

\* excel_writer.append_company(company_data)
AppendCompany ==
  /\ op = "none"
  /\ op' = "append_company"
  /\ arg' = input
  /\ ret' = append_company(pending_data, input).added
  /\ pending_data' = append_company(pending_data, input).pending_data
  /\ UNCHANGED <<input, progVars>>

NextValidators ==
  DetermineStatus \/ HasContactInfo \/ ValidateCompanyData \/ AppendCompany

SpecValidators == InitValidators /\ [][NextValidators]_vars

(***************************************************************************)
(* Properties of the classifier and the extractor (SpecExtract)            *)
(***************************************************************************)

HasNegativeKeyword(s) ==
  \E i \in DOMAIN PDF_NEGATIVE_KEYWORDS : Contains(s, PDF_NEGATIVE_KEYWORDS[i])

PositiveHits(s) ==
  {i \in DOMAIN PDF_POSITIVE_KEYWORDS : Contains(s, PDF_POSITIVE_KEYWORDS[i])}

NegativeIn == [p \in KnownPairs |-> HasNegativeKeyword(Combined(p.url, p.text))]

PositiveIn == [p \in KnownPairs |-> PositiveHits(Combined(p.url, p.text)) # {}]

\* C1: a URL and link text whose lowercased combination contains a negative
\* keyword is refused by should_download_url, positive keywords or not, and
\* every URL extract_catalog_links returns comes from a reference of the page
\* whose URL and link text contain no negative keyword.
C1_DenyRuleAbsolute ==
  /\ (op = "should_download_url" /\ NegativeIn[arg]) => ~ret.ok
  /\ op = "extract_catalog_links" =>
       \A k \in DOMAIN ret :
         \E r \in Refs(input.soup, input.base_url) : r.url = ret[k] /\ ~NegativeIn[r]

\* A page with a link that has a negative and a positive keyword, and a second
\* link: only the second is returned.
C1_Witness ==
  /\ op = "extract_catalog_links"
  /\ Len(ret) = 1
  /\ \E r \in Refs(input.soup, input.base_url) :
       NegativeIn[r] /\ PositiveIn[r] /\ r.url # ret[1]

\* The score the rule of the claim gives, before it is clamped.
ClaimedRawScore(url, link_text) ==
  LET combined == Combined(url, link_text)
      url_lower == Lower(url)
      InUrl(path) == Contains(url_lower, path)
  IN 50
     - (IF HasNegativeKeyword(combined) THEN 60 ELSE 0)
     + 15 * Cardinality(PositiveHits(combined))
     + (IF InUrl(<<"/","c","a","t","a","l","o","g">>) \/ InUrl(<<"/","k","a","t","a","l","o","g">>)
          THEN 20 ELSE 0)
     + (IF InUrl(<<"/","p","r","o","d","u","c","t">>) \/ InUrl(<<"/","u","r","u","n">>)
          THEN 15 ELSE 0)
     + (IF InUrl(<<"/","d","o","w","n","l","o","a","d">>) \/ InUrl(<<"/","i","n","d","i","r">>)
          THEN 10 ELSE 0)

ClaimedRawScoreOf == [p \in KnownPairs |-> ClaimedRawScore(p.url, p.text)]

\* C7: get_url_score is 50, minus 60 when a negative keyword occurs in the
\* lowercased URL and text, plus 15 for each positive keyword occurring in it,
\* plus 20, 15 and 10 for the catalog, product and download path segments in
\* the lowercased URL, clamped to 0..100.
C7_UrlScore ==
  op = "get_url_score" =>
    LET raw == ClaimedRawScoreOf[arg]
    IN /\ ret = (IF raw < 0 THEN 0 ELSE IF raw > 100 THEN 100 ELSE raw)
       /\ ret \in 0..100

\* A URL whose keywords and path segments add up to more than 100.
C7_Witness ==
  op = "get_url_score" /\ ClaimedRawScoreOf[arg] > 100 /\ ret = 100

\* C8: the list extract_catalog_links returns holds, for each normalized URL
\* among the surviving candidates, the URL of its highest-ranked instance
\* (higher score first, first seen first among equal scores), these ordered by
\* the same ranking, and no two of its URLs have the same normalized form.
C8_RankedDeduplicated ==
  op = "extract_catalog_links" =>
    LET C == CollectCandidates(input.soup, input.base_url)
        Precedes(i, j) ==
          C[i].score > C[j].score \/ (C[i].score = C[j].score /\ i < j)
        Same(i, j) == NormalizeUrl(C[i].url) = NormalizeUrl(C[j].url)
        Best == {i \in DOMAIN C :
                   \A j \in DOMAIN C : (j # i /\ Same(i, j)) => Precedes(i, j)}
        Pos(i) == 1 + Cardinality({j \in Best : Precedes(j, i)})
    IN /\ Len(ret) = Cardinality(Best)
       /\ \A i \in Best : ret[Pos(i)] = C[i].url
       /\ \A k, l \in DOMAIN ret :
            k # l => NormalizeUrl(ret[k]) # NormalizeUrl(ret[l])

\* Two links to one file, the second with a query string and the higher score:
\* the second is the one returned.
C8_Witness ==
  /\ op = "extract_catalog_links"
  /\ LET C == CollectCandidates(input.soup, input.base_url)
     IN /\ Len(C) = 2
        /\ C[1].url # C[2].url
        /\ NormalizeUrl(C[1].url) = NormalizeUrl(C[2].url)
        /\ C[2].score > C[1].score
        /\ ret = <<C[2].url>>

(***************************************************************************)
(* Properties of the status rules and the persistence gate                 *)
(* (SpecValidators)                                                        *)
(***************************************************************************)

\* d[key] is a string with a character that is not whitespace
NonBlank(d, key) ==
  /\ key \in d.keys
  /\ key \notin d.nones
  /\ \E i \in DOMAIN d[key] : d[key][i] \notin Whitespace

\* C2: determine_status returns FAILED for a count of 0 whatever the contact
\* flag, SUCCESS for a positive count with contact, PARTIAL for a positive
\* count without; has_contact_info is true exactly when phone or email is a
\* string with a non-whitespace character; neither changes the pending rows.
C2_StatusRule ==
  /\ op = "determine_status" =>
       /\ arg.catalog_count = 0 => ret = "FAILED"
       /\ (arg.catalog_count > 0 /\ arg.has_contact) => ret = "SUCCESS"
       /\ (arg.catalog_count > 0 /\ ~arg.has_contact) => ret = "PARTIAL"
       /\ pending_data = <<>>
  /\ op = "has_contact_info" =>
       /\ ret <=> (NonBlank(arg, "phone") \/ NonBlank(arg, "email"))
       /\ pending_data = <<>>

\* No catalog but a contact: FAILED.
C2_Witness ==
  op = "determine_status" /\ arg.catalog_count = 0 /\ arg.has_contact /\ ret = "FAILED"

\* The record has catalog_count = 0.
CountIsZero(d) == "catalog_count" \in d.keys /\ d.catalog_count = 0

\* The record lists no file under catalog_files or downloaded_catalogs.
NoFileListed(d) ==
  /\ ~("catalog_files" \in d.keys /\ "catalog_files" \notin d.nones /\ d.catalog_files # <<>>)
  /\ ~("downloaded_catalogs" \in d.keys /\ d.downloaded_catalogs # <<>>)

CATALOG_PAGE_KEYWORDS ==
  <<
    <<"k","a","t","a","l","o","g">>,
    <<"c","a","t","a","l","o","g">>,
    <<"c","a","t","a","l","o","g","u","e">>,
    <<"d","o","w","n","l","o","a","d">>,
    <<"i","n","d","i","r">>,
    <<"y","u","k","l","e">>,
    <<"d","o","k","u","m","a","n">>,
    <<"d","o","c","u","m","e","n","t">>,
    <<"d","o","c","u","m","e","n","t","s">>,
    <<"m","e","d","i","a">>,
    <<"f","i","l","e","s">>,
    <<"d","o","s","y","a">>
  >>

\* config/settings.py
CONTACT_KEYWORDS ==
  <<
    <<"i","l","e","t","i","s","i","m">>,
    <<"i","l","e","t","i","s-cedilla","i","m">>,
    <<"c","o","n","t","a","c","t">>,
    <<"c","o","n","t","a","c","t","u","s">>,
    <<"c","o","n","t","a","c","t","-","u","s">>,
    <<"h","a","k","k","i","m","i","z","d","a">>,
    <<"h","a","k","k","dotless-i","m","dotless-i","z","d","a">>,
    <<"a","b","o","u","t">>,
    <<"a","b","o","u","t","u","s">>,
    <<"a","b","o","u","t","-","u","s">>,
    <<"k","u","r","u","m","s","a","l">>,
    <<"c","o","r","p","o","r","a","t","e">>,
    <<"b","i","z","e","-","u","l","a","s","i","n">>,
    <<"b","i","z","e","u","l","a","s","i","n">>,
    <<"u","l","a","s","i","m">>,
    <<"u","l","a","s-cedilla","dotless-i","m">>
  >>

\* _find_all_catalogs: CATALOG_PAGE_KEYWORDS + the keywords added to them
extended_page_keywords ==
  <<
    <<"k","a","t","a","l","o","g">>,
    <<"c","a","t","a","l","o","g">>,
    <<"c","a","t","a","l","o","g","u","e">>,
    <<"d","o","w","n","l","o","a","d">>,
    <<"i","n","d","i","r">>,
    <<"y","u","k","l","e">>,
    <<"d","o","k","u","m","a","n">>,
    <<"d","o","c","u","m","e","n","t">>,
    <<"d","o","c","u","m","e","n","t","s">>,
    <<"m","e","d","i","a">>,
    <<"f","i","l","e","s">>,
    <<"d","o","s","y","a">>,
    <<"u","r","u","n","l","e","r">>,
    <<"u-diaeresis","r","u-diaeresis","n","l","e","r">>,
    <<"p","r","o","d","u","c","t","s">>,
    <<"p","r","o","d","u","c","t">>,
    <<"d","o","s","y","a","l","a","r">>,
    <<"d","o","s","y","a">>,
    <<"f","i","l","e","s">>,
    <<"f","i","l","e">>,
    <<"b","e","l","g","e","l","e","r">>,
    <<"b","e","l","g","e">>,
    <<"d","o","c","u","m","e","n","t","s">>,
    <<"m","e","d","y","a">>,
    <<"m","e","d","i","a">>,
    <<"b","a","s","i","n">>,
    <<"p","r","e","s","s">>,
    <<"t","e","k","n","i","k">>,
    <<"t","e","c","h","n","i","c","a","l">>,
    <<"s","p","e","c">>,
    <<"s","p","e","c","i","f","i","c","a","t","i","o","n">>,
    <<"b","i","l","g","i">>,
    <<"i","n","f","o">>,
    <<"k","a","y","n","a","k">>,
    <<"r","e","s","o","u","r","c","e">>
  >>

\* _find_all_catalogs
common_catalog_paths ==
  <<
    <<"/","t","r","/","d","o","w","n","l","o","a","d","-","l","i","s","t","e","s","i">>,
    <<"/","t","r","/","k","a","t","a","l","o","g">>,
    <<"/","t","r","/","d","o","w","n","l","o","a","d">>,
    <<"/","t","r","/","d","o","w","n","l","o","a","d","s">>,
    <<"/","t","r","/","d","o","k","u","m","a","n">>,
    <<"/","t","r","/","d","o","k","u","m","a","n","l","a","r">>,
    <<"/","t","r","/","u","r","u","n","l","e","r">>,
    <<"/","t","r","/","u","r","u","n">>,
    <<"/","t","r","/","m","e","d","i","a">>,
    <<"/","t","r","/","m","e","d","y","a">>,
    <<"/","d","o","w","n","l","o","a","d","-","l","i","s","t","e","s","i">>,
    <<"/","k","a","t","a","l","o","g">>,
    <<"/","k","a","t","a","l","o","g","l","a","r">>,
    <<"/","d","o","w","n","l","o","a","d">>,
    <<"/","d","o","w","n","l","o","a","d","s">>,
    <<"/","c","a","t","a","l","o","g">>,
    <<"/","c","a","t","a","l","o","g","s">>,
    <<"/","c","a","t","a","l","o","g","u","e">>,
    <<"/","i","n","d","i","r">>,
    <<"/","i","n","d","i","r","m","e","l","e","r">>,
    <<"/","i","n","d","i","r","m","e","-","m","e","r","k","e","z","i">>,
    <<"/","d","o","k","u","m","a","n">>,
    <<"/","d","o","k","u","m","a","n","l","a","r">>,
    <<"/","d","o","c","u","m","e","n","t","s">>,
    <<"/","d","o","c","s">>,
    <<"/","d","o","s","y","a">>,
    <<"/","d","o","s","y","a","l","a","r">>,
    <<"/","f","i","l","e","s">>,
    <<"/","d","o","s","y","a","-","m","e","r","k","e","z","i">>,
    <<"/","m","e","d","i","a">>,
    <<"/","m","e","d","y","a">>,
    <<"/","b","r","o","s","u","r">>,
    <<"/","b","r","o","s","u","r","l","e","r">>,
    <<"/","b","r","o","c","h","u","r","e">>,
    <<"/","b","r","o","c","h","u","r","e","s">>,
    <<"/","p","d","f">>,
    <<"/","p","d","f","s">>,
    <<"/","f","i","y","a","t","-","l","i","s","t","e","s","i">>,
    <<"/","p","r","i","c","e","l","i","s","t">>,
    <<"/","u","r","u","n","l","e","r">>,
    <<"/","u","r","u","n">>,
    <<"/","p","r","o","d","u","c","t","s">>,
    <<"/","p","r","o","d","u","c","t">>,
    <<"/","k","u","r","u","m","s","a","l","/","k","a","t","a","l","o","g">>,
    <<"/","k","u","r","u","m","s","a","l","/","d","o","k","u","m","a","n">>
  >>

\* _find_contact_info
common_contact_paths ==
  <<
    <<"/","i","l","e","t","i","s","i","m">>,
    <<"/","i","l","e","t","i","s-cedilla","i","m">>,
    <<"/","c","o","n","t","a","c","t">>,
    <<"/","c","o","n","t","a","c","t","-","u","s">>,
    <<"/","c","o","n","t","a","c","t","u","s">>,
    <<"/","b","i","z","e","-","u","l","a","s","i","n">>,
    <<"/","b","i","z","e","u","l","a","s","i","n">>,
    <<"/","b","i","z","e","-","u","l","a","s-cedilla","dotless-i","n">>,
    <<"/","h","a","k","k","i","m","i","z","d","a">>,
    <<"/","h","a","k","k","dotless-i","m","dotless-i","z","d","a">>,
    <<"/","a","b","o","u","t">>,
    <<"/","a","b","o","u","t","-","u","s">>,
    <<"/","a","b","o","u","t","u","s">>,
    <<"/","k","u","r","u","m","s","a","l">>,
    <<"/","k","u","r","u","m","s","a","l","/","i","l","e","t","i","s","i","m">>,
    <<"/","t","r","/","i","l","e","t","i","s","i","m">>,
    <<"/","t","r","/","c","o","n","t","a","c","t">>,
    <<"/","c","o","r","p","o","r","a","t","e","/","c","o","n","t","a","c","t">>,
    <<"/","s","i","r","k","e","t","/","i","l","e","t","i","s","i","m">>,
    <<"/","s-cedilla","i","r","k","e","t","/","i","l","e","t","i","s-cedilla","i","m">>
  >>

\* _check_sitemap_for_catalogs
catalog_indicators ==
  <<
    <<"k","a","t","a","l","o","g">>,
    <<"c","a","t","a","l","o","g">>,
    <<"d","o","w","n","l","o","a","d">>,
    <<"i","n","d","i","r">>,
    <<"d","o","k","u","m","a","n">>,
    <<"d","o","c","u","m","e","n","t">>,
    <<"p","d","f">>,
    <<"b","r","o","s","u","r">>,
    <<"b","r","o","c","h","u","r","e">>
  >>

\* DeepScanStrategy.find_catalog_links: common_paths
deep_common_paths ==
  <<
    <<"/","t","r","/","d","o","w","n","l","o","a","d","-","l","i","s","t","e","s","i">>,
    <<"/","t","r","/","k","a","t","a","l","o","g">>,
    <<"/","t","r","/","d","o","w","n","l","o","a","d">>,
    <<"/","t","r","/","d","o","w","n","l","o","a","d","s">>,
    <<"/","t","r","/","d","o","k","u","m","a","n">>,
    <<"/","t","r","/","d","o","k","u","m","a","n","l","a","r">>,
    <<"/","t","r","/","u","r","u","n","l","e","r">>,
    <<"/","d","o","w","n","l","o","a","d","-","l","i","s","t","e","s","i">>,
    <<"/","k","a","t","a","l","o","g">>,
    <<"/","k","a","t","a","l","o","g","l","a","r">>,
    <<"/","d","o","w","n","l","o","a","d">>,
    <<"/","d","o","w","n","l","o","a","d","s">>,
    <<"/","c","a","t","a","l","o","g">>,
    <<"/","c","a","t","a","l","o","g","s">>,
    <<"/","c","a","t","a","l","o","g","u","e">>,
    <<"/","i","n","d","i","r">>,
    <<"/","i","n","d","i","r","m","e","l","e","r">>,
    <<"/","i","n","d","i","r","m","e","-","m","e","r","k","e","z","i">>,
    <<"/","d","o","k","u","m","a","n">>,
    <<"/","d","o","k","u","m","a","n","l","a","r">>,
    <<"/","d","o","c","u","m","e","n","t","s">>,
    <<"/","d","o","c","s">>,
    <<"/","m","e","d","i","a">>,
    <<"/","m","e","d","y","a">>,
    <<"/","f","i","l","e","s">>,
    <<"/","d","o","s","y","a","l","a","r">>,
    <<"/","d","o","s","y","a","-","m","e","r","k","e","z","i">>,
    <<"/","p","d","f">>,
    <<"/","p","d","f","s">>,
    <<"/","b","r","o","s","u","r">>,
    <<"/","b","r","o","c","h","u","r","e">>,
    <<"/","b","r","o","s","u","r","l","e","r">>,
    <<"/","u","r","u","n","l","e","r">>,
    <<"/","u","r","u","n">>,
    <<"/","p","r","o","d","u","c","t","s">>,
    <<"/","p","r","o","d","u","c","t">>,
    <<"/","k","u","r","u","m","s","a","l","/","k","a","t","a","l","o","g">>,
    <<"/","k","u","r","u","m","s","a","l","/","d","o","k","u","m","a","n">>,
    <<"/","e","n","/","c","a","t","a","l","o","g">>,
    <<"/","e","n","/","d","o","w","n","l","o","a","d">>
  >>

\* DeepScanStrategy.find_catalog_links
catalog_page_patterns ==
  <<
    <<"/","k","a","t","a","l","o","g">>,
    <<"/","c","a","t","a","l","o","g">>,
    <<"/","c","a","t","a","l","o","g","u","e">>,
    <<"/","d","o","w","n","l","o","a","d">>,
    <<"/","i","n","d","i","r">>,
    <<"/","y","u","k","l","e">>,
    <<"/","d","o","k","u","m","a","n">>,
    <<"/","d","o","c","u","m","e","n","t">>,
    <<"/","d","o","c","s">>,
    <<"/","p","d","f">>,
    <<"/","m","e","d","i","a">>,
    <<"/","f","i","l","e","s">>,
    <<"/","b","r","o","s","u","r">>,
    <<"/","b","r","o","c","h","u","r","e">>,
    <<"/","u","r","u","n">>,
    <<"/","p","r","o","d","u","c","t">>,
    <<"/","f","i","y","a","t">>,
    <<"/","p","r","i","c","e">>
  >>

(***************************************************************************)
(* scrapers/base_scraper.py, scrapers/generic_scraper.py: the pure parts   *)
(* of the crawl                                                            *)
(***************************************************************************)

HttpPrefix == <<"h","t","t","p",":","/","/">>
HttpsPrefix == <<"h","t","t","p","s",":","/","/">>

\* scrape: a website without a scheme gets https://
NormalizeWebsite(website) ==
  IF StartsWith(website, HttpPrefix) \/ StartsWith(website, HttpsPrefix)
    THEN website
    ELSE HttpsPrefix \o website

\* The place of the first character of s, from place i on, that is in stops
\* (Len(s) + 1 when there is none).
RECURSIVE FirstOf(_, _, _)
FirstOf(s, stops, i) ==
  IF i > Len(s) THEN Len(s) + 1
  ELSE IF s[i] \in stops THEN i
  ELSE FirstOf(s, stops, i + 1)

\* Where the netloc of an http(s) URL starts.
NetlocStart(url) == IF StartsWith(url, HttpsPrefix) THEN 9 ELSE 8

\* get_base_url: scheme://netloc of an http(s) URL
get_base_url(url) == SubSeq(url, 1, FirstOf(url, {"/", "?", "#"}, NetlocStart(url)) - 1)

\* urlparse(url).path
UrlPath(url) ==
  LET from == FirstOf(url, {"/", "?", "#"}, NetlocStart(url))
      to == FirstOf(url, {"?", "#"}, from)
  IN SubSeq(url, from, to - 1)

\* A keyword of the list occurs in the lowercased href or link text.
AnyKeywordIn(keywords, href, link_text) ==
  \E k \in DOMAIN keywords :
    \/ Contains(href, Lower(keywords[k]))
    \/ Contains(link_text, Lower(keywords[k]))

\* find_pages_by_keywords: the targets of the anchors whose href or text has
\* a keyword, in document order, each once.
RECURSIVE find_pages_by_keywords(_, _, _)
find_pages_by_keywords(soup, base_url, keywords) ==
  IF soup = <<>> THEN <<>>
  ELSE LET rest == find_pages_by_keywords(SubSeq(soup, 1, Len(soup) - 1), base_url, keywords)
           link == soup[Len(soup)]
           full_url == resolve_url(base_url, link.url)
       IN IF /\ link.tag = "a"
             /\ AnyKeywordIn(keywords, Lower(link.url), Lower(link.text))
             /\ \A i \in DOMAIN rest : rest[i] # full_url
            THEN Append(rest, full_url)
            ELSE rest

\* The first n members of s
Take(s, n) == SubSeq(s, 1, Min2(n, Len(s)))

\* The keyword pages of the documents of Web, each computed once
KeywordLists == {extended_page_keywords, Take(CATALOG_PAGE_KEYWORDS, 5), CONTACT_KEYWORDS}

KeywordPagesOf ==
  [k \in {[soup |-> p.soup, base_url |-> site, keywords |-> kw] :
            p \in Web, site \in {SiteX, SiteY}, kw \in KeywordLists} |->
     find_pages_by_keywords(k.soup, k.base_url, k.keywords)]

\* self.find_pages_by_keywords(soup, base_url, keywords)
scraper_find_pages_by_keywords(soup, base_url, keywords) ==
  LET k == [soup |-> soup, base_url |-> base_url, keywords |-> keywords]
  IN IF k \in DOMAIN KeywordPagesOf THEN KeywordPagesOf[k]
     ELSE find_pages_by_keywords(soup, base_url, keywords)

\* s without the members of list that are in it already (in the order of list)
RECURSIVE ExtendNew(_, _)
ExtendNew(s, list) ==
  IF list = <<>> THEN s
  ELSE IF \E i \in DOMAIN s : s[i] = Head(list)
         THEN ExtendNew(s, Tail(list))
         ELSE ExtendNew(Append(s, Head(list)), Tail(list))

\* _check_sitemap_for_catalogs, from the k-th sitemap URL on: the <loc>
\* entries with a catalog indicator of the first sitemap that answers and
\* has any. answers is the set of URLs whose fetch gives a document.
SitemapNames ==
  << <<"/","s","i","t","e","m","a","p",".","x","m","l">>,
     <<"/","s","i","t","e","m","a","p","_","i","n","d","e","x",".","x","m","l">>,
     <<"/","s","i","t","e","m","a","p","-","i","n","d","e","x",".","x","m","l">> >>

IsCatalogLoc(url) ==
  \E k \in DOMAIN catalog_indicators : Contains(Lower(url), catalog_indicators[k])

RECURSIVE SitemapFrom(_, _, _)
SitemapFrom(k, base_url, answers) ==
  IF k > Len(SitemapNames) THEN <<>>
  ELSE LET sitemap_url == RStripSlash(base_url) \o SitemapNames[k]
           potential_pages ==
             IF sitemap_url \in answers /\ Exists(sitemap_url)
               THEN SelectSeq(PageAt(sitemap_url).locs, IsCatalogLoc)
               ELSE <<>>
       IN IF potential_pages # <<>> THEN potential_pages
          ELSE SitemapFrom(k + 1, base_url, answers)

check_sitemap_for_catalogs(base_url, answers) ==
  Take(SitemapFrom(1, base_url, answers), 10)

\* base_url.rstrip('/') + path for the paths of a list
RECURSIVE PathUrls(_, _)
PathUrls(base_url, paths) ==
  IF paths = <<>> THEN <<>>
  ELSE <<RStripSlash(base_url) \o Head(paths)>> \o PathUrls(base_url, Tail(paths))

\* _find_all_catalogs: the candidate pages before the loop: the keyword pages
\* of the main page, the sitemap pages, then the common paths not among them
\* and not visited.
CandidatePages(main_soup, base_url, answers, visited_urls) ==
  LET keyword_pages ==
        scraper_find_pages_by_keywords(main_soup, base_url, extended_page_keywords)
      catalog_pages == keyword_pages \o check_sitemap_for_catalogs(base_url, answers)
      IsNew(u) == u \notin visited_urls
  IN ExtendNew(catalog_pages, SelectSeq(PathUrls(base_url, common_catalog_paths), IsNew))

\* The page budget of _find_all_catalogs
max_pages == 15

\* A budget that is never reached.
BudgetNeverReached(pages_checked) == FALSE

\* if pages_checked >= max_pages: break
BudgetReached(pages_checked) == pages_checked >= max_pages

\* The page budget of _find_contact_info
max_contact_pages == 8

\* list(dict.fromkeys(contact_pages)): the common contact paths, then the
\* contact pages the main page links to, each once
ContactPages(main_soup, base_url) ==
  ExtendNew(<<>>, PathUrls(base_url, common_contact_paths)
                    \o scraper_find_pages_by_keywords(main_soup, base_url, CONTACT_KEYWORDS))

\* extract_contact_info(soup): the contact fields found in the document
extract_contact_info(page) == page.contact

\* The orders list(a_set) can give
RECURSIVE ListsOf(_)
ListsOf(S) ==
  IF S = {} THEN {<<>>}
  ELSE UNION {{<<x>> \o l : l \in ListsOf(S \ {x})} : x \in S}

(***************************************************************************)
(* scrapers/catalog_strategies.py: DeepScanStrategy, the pure parts        *)
(***************************************************************************)

\* normalize_turkish: the letters of tr_map replaced, then lower()
TrMapChar(c) ==
  CASE c \in {"I-dot", "I", "dotless-i"} -> "i"
    [] c \in {"G-breve", "g-breve"} -> "g"
    [] c \in {"U-diaeresis", "u-diaeresis"} -> "u"
    [] c \in {"S-cedilla", "s-cedilla"} -> "s"
    [] c \in {"O-diaeresis", "o-diaeresis"} -> "o"
    [] c \in {"C-cedilla", "c-cedilla"} -> "c"
    [] OTHER -> c

normalize_turkish(text) == Lower([i \in DOMAIN text |-> TrMapChar(text[i])])

\* The percent escapes unquote decodes here: the space and the UTF-8 forms of
\* the Turkish letters. Any other escape is left as it is written.
PercentEscapes ==
  << [code |-> <<"%","2","0">>, char |-> " "],
     [code |-> <<"%","C","5","%","9","F">>, char |-> "s-cedilla"],
     [code |-> <<"%","C","5","%","9","E">>, char |-> "S-cedilla"],
     [code |-> <<"%","C","4","%","9","F">>, char |-> "g-breve"],
     [code |-> <<"%","C","4","%","9","E">>, char |-> "G-breve"],
     [code |-> <<"%","C","3","%","B","C">>, char |-> "u-diaeresis"],
     [code |-> <<"%","C","3","%","9","C">>, char |-> "U-diaeresis"],
     [code |-> <<"%","C","3","%","B","6">>, char |-> "o-diaeresis"],
     [code |-> <<"%","C","3","%","9","6">>, char |-> "O-diaeresis"],
     [code |-> <<"%","C","3","%","A","7">>, char |-> "c-cedilla"],
     [code |-> <<"%","C","3","%","8","7">>, char |-> "C-cedilla"],
     [code |-> <<"%","C","4","%","B","1">>, char |-> "dotless-i"],
     [code |-> <<"%","C","4","%","B","0">>, char |-> "I-dot"] >>

UpperHex(c) ==
  CASE c = "a" -> "A" [] c = "b" -> "B" [] c = "c" -> "C"
    [] c = "d" -> "D" [] c = "e" -> "E" [] c = "f" -> "F" [] OTHER -> c

\* urllib.parse.unquote
RECURSIVE unquote(_)
unquote(s) ==
  IF s = <<>> THEN <<>>
  ELSE LET Matches(k) ==
             LET code == PercentEscapes[k].code
             IN /\ Len(code) <= Len(s)
                /\ \A j \in 1..Len(code) : UpperHex(s[j]) = code[j]
           hits == {k \in DOMAIN PercentEscapes : Matches(k)}
       IN IF s[1] = "%" /\ hits # {}
            THEN LET k == CHOOSE k \in hits : TRUE
                 IN <<PercentEscapes[k].char>>
                      \o unquote(SubSeq(s, Len(PercentEscapes[k].code) + 1, Len(s)))
            ELSE <<Head(s)>> \o unquote(Tail(s))

\* The place of the last c in s (0 when there is none)
LastOf(s, c) ==
  LET at == {i \in DOMAIN s : s[i] = c}
  IN IF at = {} THEN 0 ELSE CHOOSE i \in at : \A j \in at : j <= i

\* os.path.basename
Basename(path) == SubSeq(path, LastOf(path, "/") + 1, Len(path))

\* os.path.splitext(filename)[0]: the name up to its last dot, a dot that
\* starts the name not counted
NameWithoutExt(filename) ==
  LET dot == LastOf(filename, ".")
  IN IF dot > 1 /\ \E i \in 1..(dot - 1) : filename[i] # "."
       THEN SubSeq(filename, 1, dot - 1)
       ELSE filename

\* os.path.splitext(filename)[1]
ExtOf(filename) == SubSeq(filename, Len(NameWithoutExt(filename)) + 1, Len(filename))

HexDigits == {"0","1","2","3","4","5","6","7","8","9","a","b","c","d","e","f"}

\* re.match(r'^[a-f0-9]{20,}$', name)
IsHexName(name) == Len(name) >= 20 /\ \A i \in DOMAIN name : name[i] \in HexDigits

\* _extract_catalogs_from_soup.is_valid_catalog
is_valid_catalog(url) ==
  LET decoded_url == normalize_turkish(unquote(url))
      filename == Basename(UrlPath(url))
      filename_normalized == normalize_turkish(unquote(filename))
      combined == decoded_url \o <<" ">> \o filename_normalized
  IN IF IsHexName(Lower(NameWithoutExt(filename))) THEN FALSE
     ELSE ~\E k \in DOMAIN PDF_NEGATIVE_KEYWORDS :
             Contains(combined, PDF_NEGATIVE_KEYWORDS[k])

\* any(href.lower().endswith(ext) for ext in VALID_EXTENSIONS)
EndsWithExtension(href) ==
  \E i \in DOMAIN VALID_EXTENSIONS : EndsWith(Lower(href), VALID_EXTENSIONS[i])

\* What one element gives _extract_catalogs_from_soup: anchors by href, the
\* data-href and data-pdf attributes, onclick handlers, quoted .pdf in scripts.
DeepRefsOf(e) ==
  (IF e.tag = "a" /\ EndsWithExtension(e.url) THEN {e.url} ELSE {})
    \cup (IF e.tag = "a" /\ e.data # <<>> /\ EndsWithExtension(e.data) THEN {e.data} ELSE {})
    \cup (IF e.tag = "data-pdf" /\ EndsWithExtension(e.url) THEN {e.url} ELSE {})
    \cup (IF e.tag = "onclick" /\ EndsWithExtension(e.url) THEN {e.url} ELSE {})
    \cup (IF /\ e.tag = "script"
             /\ EndsWith(Lower(e.url), <<".","p","d","f">>)
             /\ Len(e.url) > 5
            THEN {e.url} ELSE {})

\* DeepScanStrategy._extract_catalogs_from_soup
extract_catalogs_from_soup(soup, base_url) ==
  {u \in {resolve_url(base_url, href) : href \in UNION {DeepRefsOf(soup[i]) : i \in DOMAIN soup}} :
     is_valid_catalog(u)}

\* A pattern of the list occurs in the lowercased href, or without its
\* slashes in the lowercased link text.
WithoutSlash(pattern) == SelectSeq(pattern, LAMBDA c : c # "/")

IsCatalogPageLink(link) ==
  \E k \in DOMAIN catalog_page_patterns :
    \/ Contains(Lower(link.url), catalog_page_patterns[k])
    \/ Contains(Lower(link.text), WithoutSlash(catalog_page_patterns[k]))

IsSecondLevelLink(link) ==
  \E p \in {<<"/","k","a","t","a","l","o","g">>, <<"/","p","d","f">>,
            <<"/","d","o","w","n","l","o","a","d">>} :
    Contains(Lower(link.url), p)

\* urljoin(base_url, link['href']) for the links of a list
RECURSIVE Targets(_, _)
Targets(base_url, links) ==
  IF links = <<>> THEN <<>>
  ELSE <<resolve_url(base_url, Head(links).url)>> \o Targets(base_url, Tail(links))

\* The targets of the anchors of a document that satisfy Test, in document
\* order.
LinkTargets(soup, base_url, Test(_)) ==
  Targets(base_url, SelectSeq(soup, LAMBDA e : e.tag = "a" /\ Test(e)))

\* s, then the members of list that are neither visited nor in it already
RECURSIVE ExtendUnvisited(_, _, _)
ExtendUnvisited(s, list, visited_urls) ==
  IF list = <<>> THEN s
  ELSE IF Head(list) \in visited_urls \/ \E i \in DOMAIN s : s[i] = Head(list)
         THEN ExtendUnvisited(s, Tail(list), visited_urls)
         ELSE ExtendUnvisited(Append(s, Head(list)), Tail(list), visited_urls)

\* find_catalog_links: pages_to_scan before the loop: the common paths not
\* visited, then the catalog page links of the document
DeepPagesToScan(soup, base_url, visited_urls) ==
  ExtendUnvisited(
    SelectSeq(PathUrls(base_url, deep_common_paths), LAMBDA u : u \notin visited_urls),
    LinkTargets(soup, base_url, IsCatalogPageLink),
    visited_urls)

\* DeepScanStrategy(max_pages=10), as the StrategyManager creates it
deep_max_pages == 10

(***************************************************************************)
(* utils/validators.py, utils/file_downloader.py: file names and download  *)
(***************************************************************************)

UnnamedFile == <<"u","n","n","a","m","e","d","_","f","i","l","e">>

InvalidChars == {"<", ">", ":", "\"", "/", "\\", "|", "?", "*"}

\* while '__' in filename: filename = filename.replace('__', '_')
RECURSIVE CollapseUnderscores(_)
CollapseUnderscores(s) ==
  IF Len(s) < 2 THEN s
  ELSE IF s[1] = "_" /\ s[2] = "_" THEN CollapseUnderscores(Tail(s))
  ELSE <<Head(s)>> \o CollapseUnderscores(Tail(s))

\* filename.strip('_')
RECURSIVE StripUnderscores(_)
StripUnderscores(s) ==
  IF s = <<>> THEN s
  ELSE IF Head(s) = "_" THEN StripUnderscores(Tail(s))
  ELSE IF s[Len(s)] = "_" THEN StripUnderscores(SubSeq(s, 1, Len(s) - 1))
  ELSE s

sanitize_filename(filename) ==
  IF filename = <<>> THEN UnnamedFile
  ELSE LET replaced ==
             [i \in DOMAIN filename |->
                IF filename[i] \in InvalidChars \/ filename[i] = " "
                  THEN "_" ELSE filename[i]]
           stripped == StripUnderscores(CollapseUnderscores(replaced))
       IN IF stripped = <<>> THEN UnnamedFile ELSE stripped

\* f"catalog_{timestamp}.pdf", the timestamp one character "now"
TimestampName == <<"c","a","t","a","l","o","g","_","now",".","p","d","f">>

\* FileDownloader._extract_filename
extract_filename(url) ==
  LET filename == Basename(unquote(UrlPath(url)))
  IN IF filename = <<>> \/ \A i \in DOMAIN filename : filename[i] # "."
       THEN TimestampName
       ELSE filename

\* FileDownloader._has_valid_extension
downloader_has_valid_extension(filename) ==
  \E i \in DOMAIN VALID_EXTENSIONS : EndsWith(Lower(filename), VALID_EXTENSIONS[i])

\* FileDownloader.base_dir, the catalogs directory of the session
BaseDir == <<"c","a","t","a","l","o","g","s">>

\* os.path.join of a directory and a name without a slash
PathJoin(directory, name) == directory \o <<"/">> \o name

\* FileDownloader._get_company_dir
get_company_dir(company_name) == PathJoin(BaseDir, sanitize_filename(company_name))

Digit(n) == <<"0","1","2","3","4","5","6","7","8","9">>[n + 1]

\* str(counter)
RECURSIVE Decimal(_)
Decimal(n) == IF n < 10 THEN <<Digit(n)>> ELSE Decimal(n \div 10) \o <<Digit(n % 10)>>

\* FileDownloader._save_file: the path the content is written to, the name
\* numbered when a file of that name is there already
RECURSIVE NumberedPath(_, _, _, _)
NumberedPath(disk, directory, filename, counter) ==
  LET file_path ==
        PathJoin(directory,
                 NameWithoutExt(filename) \o <<"_">> \o Decimal(counter) \o ExtOf(filename))
  IN IF file_path \in disk
       THEN NumberedPath(disk, directory, filename, counter + 1)
       ELSE file_path

save_file(disk, directory, filename) ==
  IF PathJoin(directory, filename) \in disk
    THEN NumberedPath(disk, directory, filename, 1)
    ELSE PathJoin(directory, filename)

\* hashlib.md5 of a URL and of a content, taken as free of collisions: the
\* key of downloaded_hashes is the hashed value with its kind
UrlHash(url) == [kind |-> "url", v |-> url]
ContentHash(content) == [kind |-> "content", v |-> content]

\* key in downloaded_hashes, downloaded_hashes[key], downloaded_hashes[key] = path
InHashes(hashes, key) == \E e \in hashes : e.key = key
HashPath(hashes, key) == (CHOOSE e \in hashes : e.key = key).path
PutHash(hashes, key, path) ==
  {e \in hashes : e.key # key} \cup {[key |-> key, path |-> path]}

\* What the server answers a download with
DownloadResponses(url) ==
  {"error"} \cup (IF \E f \in Files : f.url = url THEN {"invalid", "ok"} ELSE {})

ContentOf(url) == (CHOOSE f \in Files : f.url = url).content

\* sanitize_filename(self._extract_filename(url)) and self._get_company_dir(
\* company_name), for the known URLs and companies each computed once
FilenameOf == [u \in KnownUrls |-> sanitize_filename(extract_filename(u))]

download_filename(url) ==
  IF url \in KnownUrls THEN FilenameOf[url] ELSE sanitize_filename(extract_filename(url))

CompanyDirOf ==
  [name \in {c.company_name : c \in CompanyChoices} |-> get_company_dir(name)]

download_company_dir(company_name) ==
  IF company_name \in DOMAIN CompanyDirOf
    THEN CompanyDirOf[company_name] ELSE get_company_dir(company_name)

\* FileDownloader.download(url, company_name), the server answering with
\* response: success and file_path of the result, and the downloader's cache
\* and the files on disk after the call.
downloader_download(url, company_name, hashes, disk, response) ==
  LET same == [success |-> FALSE, file_path |-> <<>>, hashes |-> hashes, disk |-> disk]
      filename == download_filename(url)
      company_dir == download_company_dir(company_name)
  IN IF ~downloader_should_download_url(url, <<>>).ok THEN same
     ELSE IF InHashes(hashes, UrlHash(url))
       THEN [same EXCEPT !.success = TRUE, !.file_path = HashPath(hashes, UrlHash(url))]
     ELSE IF ~downloader_has_valid_extension(filename) THEN same
     ELSE IF response = "error" THEN same
     ELSE IF EndsWith(Lower(filename), <<".","p","d","f">>) /\ response = "invalid" THEN same
     ELSE IF InHashes(hashes, ContentHash(ContentOf(url)))
       THEN [same EXCEPT !.success = TRUE,
                         !.file_path = HashPath(hashes, ContentHash(ContentOf(url)))]
     ELSE LET file_path == save_file(disk, company_dir, filename)
          IN [success |-> TRUE,
              file_path |-> file_path,
              hashes |-> PutHash(PutHash(hashes, ContentHash(ContentOf(url)), file_path),
                                 UrlHash(url), file_path),
              disk |-> disk \cup {file_path}]

(***************************************************************************)
(* main.py, utils/logger.py, scrapers/generic_scraper.py,                  *)
(* scrapers/catalog_strategies.py: the batch                               *)
(***************************************************************************)

\* Longest input file, in companies.
MaxCompanies == 2

\* Most fetches that give nothing, downloads that fail and errors raised,
\* in one batch.
MaxFaults == 2

\* A step that counts n failures, within the bound
Faulty(n) == faults + n <= MaxFaults /\ faults' = faults + n

\* ProgressTracker.__init__
NewTracker(total) ==
  [total |-> total, current |-> 0, success |-> 0, partial |-> 0, failed |-> 0, errors |-> 0]

\* ProgressTracker.increment that counts every status as a success.
increment_success_only(t, status) ==
  [t EXCEPT !.current = @ + 1, !.success = @ + 1]

\* ProgressTracker.increment
increment(t, status) ==
  IF status = "SUCCESS" THEN [t EXCEPT !.current = @ + 1, !.success = @ + 1]
  ELSE IF status = "PARTIAL" THEN [t EXCEPT !.current = @ + 1, !.partial = @ + 1]
  ELSE IF status = "FAILED" THEN [t EXCEPT !.current = @ + 1, !.failed = @ + 1]
  ELSE [t EXCEPT !.current = @ + 1, !.errors = @ + 1]

\* ProgressTracker.get_stats()['written_to_excel']
written_to_excel(t) == t.success + t.partial

\* GenericScraper.__init__: nothing visited, no strategy manager, an empty
\* download cache; disk is the set of files under the catalogs directory.
NewScraper ==
  [visited_urls |-> {}, strategy_manager |-> <<>>, use_multi_strategy |-> TRUE,
   downloaded_hashes |-> {}, disk |-> {}]

\* DeepScanStrategy.__init__, the one strategy of StrategyManager._init_strategies
NewStrategyManager == [visited_urls |-> {}]

\* process_company: the record returned for a company without a website
NoWebsiteResult(company) ==
  [EmptyDict EXCEPT
     !.keys = {"company_name", "website", "sector", "status", "catalog_count"},
     !.company_name = company.company_name,
     !.status = STATUS_ERROR,
     !.catalog_count = 0]

\* scrape: the result dictionary as created, but with status FAILED.
InitialResultFailed(company) ==
  [EmptyDict EXCEPT
     !.keys = {"company_name", "website", "sector", "phone", "email", "address",
               "catalog_count", "catalog_files", "status", "scrape_date"},
     !.company_name = company.company_name,
     !.website = company.website,
     !.status = STATUS_FAILED]

\* scrape: the result dictionary as created
InitialResult(company) ==
  [EmptyDict EXCEPT
     !.keys = {"company_name", "website", "sector", "phone", "email", "address",
               "catalog_count", "catalog_files", "status", "scrape_date"},
     !.company_name = company.company_name,
     !.website = company.website,
     !.status = STATUS_ERROR]

\* The locals of the functions while they are not running
NoScrape ==
  [result |-> EmptyDict, website |-> <<>>, base_url |-> <<>>, main_soup |-> <<>>,
   catalog_links |-> <<>>, raised |-> FALSE, phases |-> {}]
NoCrawl == [catalog_pages |-> <<>>, idx |-> 0, pages_checked |-> 0, all_catalogs |-> {}]
NoDeep == [pages_to_scan |-> <<>>, idx |-> 0, pages_scanned |-> 0, all_catalogs |-> {}]
NoContactLoop == [contact_pages |-> <<>>, idx |-> 0, pages_tried |-> 0, contact_info |-> NoContact]
NoDownload == [idx |-> 0, downloaded |-> <<>>]

\* What fetching a URL gives fetch_page / fetch_page_with_js: nothing (<<>>),
\* the page of the URL, or for a URL without a page the (empty) error document
\* the browser renders.
ErrorDocument(url) == WebPage(url, <<>>, NoContact, <<>>)

FetchOutcomes(url) ==
  {<<>>} \cup (IF Exists(url) THEN {<<PageAt(url)>>} ELSE {<<ErrorDocument(url)>>})

\* The errors code inside the try block of scrape raises
Raisable == {"Exception"}

\* scrape: except Exception
except_Exception_nothing(exc) == FALSE

except_Exception(exc) == exc \in {"Exception"}

\* main: results.append(result)
AppendResult(res, result) == Append(res, result)

CompanyLists ==
  UNION {[1..n -> CompanyChoices] : n \in 1..MaxCompanies}

Init ==
  /\ input = <<>> /\ op = "none" /\ arg = <<>> /\ ret = <<>>
  /\ companies \in CompanyLists
  /\ cur = 0
  /\ results = <<>>
  /\ tracker = NewTracker(Len(companies))
  /\ pending_data = <<>>
  /\ pc = "loop"
  /\ scraper = NewScraper
  /\ scrape = NoScrape
  /\ crawl = NoCrawl
  /\ deep = NoDeep
  /\ contact = NoContactLoop
  /\ download = NoDownload
  /\ faults = 0

\* process_company, a company without a website
ProcessCompanyNoWebsite ==
  /\ pc = "loop" /\ cur < Len(companies)
  /\ companies[cur + 1].website = <<>>
  /\ cur' = cur + 1
  /\ scrape' = [NoScrape EXCEPT !.result = NoWebsiteResult(companies[cur + 1])]
  /\ pc' = "record"
  /\ UNCHANGED <<fnVars, faults, pending_data, companies, results, tracker, scraper,
                 crawl,
                 deep, contact, download>>

\* process_company -> scrape, up to the fetch of the main page
ScrapeBegin ==
  /\ pc = "loop" /\ cur < Len(companies)
  /\ companies[cur + 1].website # <<>>
  /\ cur' = cur + 1
  /\ LET website == NormalizeWebsite(companies[cur + 1].website)
     IN scrape' = [NoScrape EXCEPT !.result = InitialResult(companies[cur + 1]),
                                   !.website = website,
                                   !.base_url = get_base_url(website)]
  /\ scraper' = [scraper EXCEPT !.visited_urls = {}]
  /\ pc' = "fetch_main"
  /\ UNCHANGED <<fnVars, faults, pending_data, companies, results, tracker, crawl, deep,
                 contact, download>>

\* scrape: fetch_page_with_js(website), then fetch_page(website)
FetchMain ==
  /\ pc = "fetch_main"
  /\ \E main_soup \in FetchOutcomes(scrape.website) :
       IF main_soup = <<>>
         THEN /\ Faulty(1)
              /\ scrape' = [scrape EXCEPT !.result.status = STATUS_ERROR]
              /\ pc' = "record"
         ELSE /\ Faulty(0)
              /\ scrape' = [scrape EXCEPT !.main_soup = main_soup]
              /\ pc' = "find_all"
  /\ UNCHANGED <<fnVars, pending_data, companies, cur, results, tracker, scraper,
                 crawl, deep, contact, download>>

\* _find_all_catalogs, up to the loop over the candidate pages
FindAllBegin ==
  /\ pc = "find_all"
  /\ \E answers \in SUBSET {RStripSlash(scrape.base_url) \o SitemapNames[1]} :
       /\ Faulty(Cardinality({u \in {RStripSlash(scrape.base_url) \o SitemapNames[1]} :
                                Exists(u) /\ u \notin answers}))
       /\ crawl' = [all_catalogs |->
                   LET main_catalogs ==
                         extract_catalog_links(scrape.main_soup[1].soup, scrape.base_url)
                   IN {main_catalogs[i] : i \in DOMAIN main_catalogs},
                 catalog_pages |->
                   CandidatePages(scrape.main_soup[1].soup, scrape.base_url, answers,
                                  scraper.visited_urls),
                 idx |-> 1,
                 pages_checked |-> 0]
  /\ pc' = "discover"
  /\ UNCHANGED <<fnVars, pending_data, companies, cur, results, tracker,
                 scraper,
                 scrape, deep, contact, download>>

\* _find_all_catalogs: the body of the loop for a page not visited before;
\* page_soup is <<>> when neither fetch has given a document
crawl_visit(c, base_url, page_soup) ==
  LET pages_checked == c.pages_checked + 1
      page_catalogs ==
        IF page_soup = <<>> THEN <<>>
        ELSE extract_catalog_links(page_soup[1].soup, base_url)
      sub_pages ==
        IF page_soup # <<>> /\ pages_checked < max_pages \div 2
          THEN scraper_find_pages_by_keywords(page_soup[1].soup, base_url,
                                              Take(CATALOG_PAGE_KEYWORDS, 5))
          ELSE <<>>
  IN CHOOSE turn \in
          {[c EXCEPT !.idx = @ + 1,
                     !.pages_checked = pages_checked,
                     !.all_catalogs = @ \cup {found[i] : i \in DOMAIN found},
                     !.catalog_pages = ExtendNew(@, first_three)] :
             found \in {page_catalogs}, first_three \in {Take(sub_pages, 3)}} : TRUE

\* _find_all_catalogs: one turn of the loop over catalog_pages
CrawlVisit ==
  /\ pc = "discover"
  /\ crawl.idx <= Len(crawl.catalog_pages)
  /\ ~BudgetReached(crawl.pages_checked)
  /\ LET page_url == crawl.catalog_pages[crawl.idx]
     IN IF page_url \in scraper.visited_urls
          THEN /\ crawl' = [crawl EXCEPT !.idx = @ + 1]
               /\ UNCHANGED <<scraper, faults>>
          ELSE /\ scraper' = [scraper EXCEPT !.visited_urls = @ \cup {page_url}]
               /\ \E page_soup \in FetchOutcomes(page_url) :
                    /\ Faulty(IF page_soup = <<>> THEN 1 ELSE 0)
                    /\ crawl' = crawl_visit(crawl, scrape.base_url, page_soup)
  /\ UNCHANGED <<fnVars, pending_data, companies, cur, results, tracker, pc, scrape,
                 deep, contact, download>>

\* _find_all_catalogs returns list(all_catalogs); scrape goes on to the
\* strategies when the list is empty, to the contact fields otherwise
CrawlEnd ==
  /\ pc = "discover"
  /\ crawl.idx > Len(crawl.catalog_pages) \/ BudgetReached(crawl.pages_checked)
  /\ \E catalog_links \in ListsOf(crawl.all_catalogs) :
       /\ scrape' = [scrape EXCEPT
                       !.catalog_links = catalog_links,
                       !.phases = IF catalog_links = <<>> /\ scraper.use_multi_strategy
                                    THEN @ ELSE @ \cup {"discovery"}]
       /\ pc' = IF catalog_links = <<>> /\ scraper.use_multi_strategy
                  THEN "strategies" ELSE "contact"
  /\ crawl' = NoCrawl
  /\ UNCHANGED <<fnVars, faults, pending_data, companies, cur, results, tracker,
                 scraper,
                 deep, contact, download>>

\* What DeepScanStrategy.fetch_page gets for a URL it has not visited
DeepFetchOutcomes(url) == FetchOutcomes(url)

\* The URLs of a list that should_download_url(url, '') accepts
FilterCatalogs(catalog_links) ==
  SelectSeq(catalog_links, LAMBDA url : downloader_should_download_url(url, <<>>).ok)

\* _try_alternative_strategies: the manager is created when there is none,
\* execute_all runs DeepScanStrategy.execute up to the loop of
\* find_catalog_links. A website the strategy has visited gives no document,
\* and so no catalog.
StrategiesBegin ==
  /\ pc = "strategies"
  /\ LET manager == IF scraper.strategy_manager = <<>>
                      THEN NewStrategyManager ELSE scraper.strategy_manager[1]
         website == scrape.website
         base_url == get_base_url(website)
     IN IF website \in manager.visited_urls
          THEN /\ scraper' = [scraper EXCEPT !.strategy_manager = <<manager>>]
               /\ faults' = faults
               /\ scrape' = [scrape EXCEPT !.catalog_links = <<>>,
                                           !.phases = @ \cup {"discovery"}]
               /\ deep' = deep
               /\ pc' = "contact"
          ELSE LET visited_urls == manager.visited_urls \cup {website}
               IN /\ scraper' = [scraper EXCEPT
                                   !.strategy_manager = <<[visited_urls |-> visited_urls]>>]
                  /\ \E soup \in DeepFetchOutcomes(website) :
                       IF soup = <<>>
                         THEN /\ Faulty(1)
                              /\ scrape' = [scrape EXCEPT !.catalog_links = <<>>,
                                                          !.phases = @ \cup {"discovery"}]
                              /\ deep' = deep
                              /\ pc' = "contact"
                         ELSE /\ Faulty(0)
                              /\ deep' = [all_catalogs |->
                                            extract_catalogs_from_soup(soup[1].soup, base_url),
                                          pages_to_scan |->
                                            DeepPagesToScan(soup[1].soup, base_url, visited_urls),
                                          idx |-> 1,
                                          pages_scanned |-> 0]
                              /\ scrape' = scrape
                              /\ pc' = "deep"
  /\ UNCHANGED <<fnVars, pending_data, companies, cur, results, tracker, crawl,
                 contact, download>>

\* find_catalog_links with a loop that stays at a page until the page gives
\* a document.
deep_visit_until_fetched(d, base_url, page_soup, visited_urls) ==
  IF page_soup = <<>> THEN d
  ELSE LET pages_scanned == d.pages_scanned + 1
       IN CHOOSE turn \in
               {[d EXCEPT
                   !.idx = @ + 1,
                   !.pages_scanned = pages_scanned,
                   !.all_catalogs = @ \cup page_catalogs,
                   !.pages_to_scan =
                      IF pages_scanned < deep_max_pages \div 2
                        THEN ExtendUnvisited(@, sub_urls, visited_urls)
                        ELSE @] :
                  page_catalogs \in {extract_catalogs_from_soup(page_soup[1].soup, base_url)},
                  sub_urls \in {LinkTargets(page_soup[1].soup, base_url,
                                            IsSecondLevelLink)}} : TRUE

\* DeepScanStrategy.find_catalog_links: the body of the loop; page_soup is
\* what fetch_page has returned (<<>> for None), visited_urls the URLs visited
\* after it
deep_visit(d, base_url, page_soup, visited_urls) ==
  IF page_soup = <<>> THEN [d EXCEPT !.idx = @ + 1]
  ELSE LET pages_scanned == d.pages_scanned + 1
       IN CHOOSE turn \in
               {[d EXCEPT
                   !.idx = @ + 1,
                   !.pages_scanned = pages_scanned,
                   !.all_catalogs = @ \cup page_catalogs,
                   !.pages_to_scan =
                      IF pages_scanned < deep_max_pages \div 2
                        THEN ExtendUnvisited(@, sub_urls, visited_urls)
                        ELSE @] :
                  page_catalogs \in {extract_catalogs_from_soup(page_soup[1].soup, base_url)},
                  sub_urls \in {LinkTargets(page_soup[1].soup, base_url,
                                            IsSecondLevelLink)}} : TRUE

\* DeepScanStrategy.find_catalog_links: one turn of the loop over pages_to_scan
DeepVisit ==
  /\ pc = "deep"
  /\ deep.idx <= Len(deep.pages_to_scan)
  /\ deep.pages_scanned < deep_max_pages
  /\ LET page_url == deep.pages_to_scan[deep.idx]
         manager == scraper.strategy_manager[1]
         base_url == get_base_url(scrape.website)
     IN IF page_url \in manager.visited_urls
          THEN /\ deep' = deep_visit(deep, base_url, <<>>, manager.visited_urls)
               /\ UNCHANGED <<scraper, faults>>
          ELSE LET visited_urls == manager.visited_urls \cup {page_url}
               IN /\ scraper' = [scraper EXCEPT
                                   !.strategy_manager = <<[visited_urls |-> visited_urls]>>]
                  /\ \E page_soup \in DeepFetchOutcomes(page_url) :
                       /\ Faulty(IF page_soup = <<>> THEN 1 ELSE 0)
                       /\ deep' = deep_visit(deep, base_url, page_soup, visited_urls)
  /\ UNCHANGED <<fnVars, pending_data, companies, cur, results, tracker, pc, scrape,
                 crawl, contact, download>>

\* find_catalog_links and execute_all return list(all_catalogs);
\* _try_alternative_strategies keeps the URLs should_download_url accepts
DeepEnd ==
  /\ pc = "deep"
  /\ deep.idx > Len(deep.pages_to_scan) \/ deep.pages_scanned >= deep_max_pages
  /\ \E catalog_links \in ListsOf(deep.all_catalogs) :
       scrape' = [scrape EXCEPT !.catalog_links = FilterCatalogs(catalog_links),
                                !.phases = @ \cup {"discovery"}]
  /\ deep' = NoDeep
  /\ pc' = "contact"
  /\ UNCHANGED <<fnVars, faults, pending_data, companies, cur, results, tracker,
                 scraper,
                 crawl, contact, download>>

\* An exception in a strategy: execute_all catches it and goes on to the next
\* strategy, of which there is none; the strategy's catalogs are lost.
StrategyException ==
  /\ pc = "deep"
  /\ Faulty(1)
  /\ scrape' = [scrape EXCEPT !.catalog_links = <<>>, !.phases = @ \cup {"discovery"}]
  /\ deep' = NoDeep
  /\ pc' = "contact"
  /\ UNCHANGED <<fnVars, pending_data, companies, cur, results, tracker, scraper,
                 crawl, contact, download>>

\* contact_info['phone'] and contact_info['email']
ContactComplete(contact_info) == contact_info.phone # <<>> /\ contact_info.email # <<>>

\* scrape: result['phone'], ['email'], ['address'] = the contact fields
WithContact(result, contact_info) ==
  [result EXCEPT !.phone = contact_info.phone, !.email = contact_info.email,
                 !.address = contact_info.address]

\* _find_contact_info, up to the loop over the contact pages: the fields of
\* the main page, returned at once when phone and email are there
ContactBegin ==
  /\ pc = "contact"
  /\ LET contact_info == extract_contact_info(scrape.main_soup[1])
     IN IF ContactComplete(contact_info)
          THEN /\ scrape' = [scrape EXCEPT !.result = WithContact(@, contact_info),
                                           !.phases = @ \cup {"contact"}]
               /\ contact' = contact
               /\ pc' = "download"
          ELSE /\ contact' = [contact_pages |->
                                ContactPages(scrape.main_soup[1].soup, scrape.base_url),
                              idx |-> 1,
                              pages_tried |-> 0,
                              contact_info |-> contact_info]
               /\ scrape' = scrape
               /\ pc' = "contact_loop"
  /\ UNCHANGED <<fnVars, faults, pending_data, companies, cur, results, tracker,
                 scraper,
                 crawl, deep, download>>

\* The fields of contact_info that are empty filled from those of a page
FillMissing(contact_info, page_contact) ==
  [phone |-> IF contact_info.phone = <<>> THEN page_contact.phone ELSE contact_info.phone,
   email |-> IF contact_info.email = <<>> THEN page_contact.email ELSE contact_info.email,
   address |-> IF contact_info.address = <<>>
                 THEN page_contact.address ELSE contact_info.address]

\* _find_contact_info: one turn of the loop over contact_pages; the loop is
\* left when phone and email are there
ContactVisit ==
  /\ pc = "contact_loop"
  /\ contact.idx <= Len(contact.contact_pages)
  /\ contact.pages_tried < max_contact_pages
  /\ LET page_url == contact.contact_pages[contact.idx]
     IN IF page_url \in scraper.visited_urls
          THEN /\ contact' = [contact EXCEPT !.idx = @ + 1]
               /\ UNCHANGED <<scraper, scrape, pc, faults>>
          ELSE /\ scraper' = [scraper EXCEPT !.visited_urls = @ \cup {page_url}]
               /\ \E page_soup \in FetchOutcomes(page_url) :
                    /\ Faulty(IF page_soup = <<>> THEN 1 ELSE 0)
                    /\ LET contact_info ==
                             IF page_soup = <<>> THEN contact.contact_info
                             ELSE FillMissing(contact.contact_info,
                                              extract_contact_info(page_soup[1]))
                       IN IF page_soup # <<>> /\ ContactComplete(contact_info)
                            THEN /\ scrape' = [scrape EXCEPT
                                                 !.result = WithContact(@, contact_info),
                                                 !.phases = @ \cup {"contact"}]
                                 /\ contact' = NoContactLoop
                                 /\ pc' = "download"
                            ELSE /\ contact' = [contact EXCEPT
                                                  !.idx = @ + 1,
                                                  !.pages_tried = @ + 1,
                                                  !.contact_info = contact_info]
                                 /\ UNCHANGED <<scrape, pc>>
  /\ UNCHANGED <<fnVars, pending_data, companies, cur, results, tracker, crawl, deep,
                 download>>

\* _find_contact_info returns when the pages or the budget are used up
ContactEnd ==
  /\ pc = "contact_loop"
  /\ contact.idx > Len(contact.contact_pages) \/ contact.pages_tried >= max_contact_pages
  /\ scrape' = [scrape EXCEPT !.result = WithContact(@, contact.contact_info),
                              !.phases = @ \cup {"contact"}]
  /\ contact' = NoContactLoop
  /\ pc' = "download"
  /\ UNCHANGED <<fnVars, faults, pending_data, companies, cur, results, tracker,
                 scraper,
                 crawl, deep, download>>

\* scrape: if catalog_links: _download_catalogs(...)
DownloadBegin ==
  /\ pc = "download"
  /\ IF scrape.catalog_links = <<>>
       THEN /\ scrape' = [scrape EXCEPT !.phases = @ \cup {"download"}]
            /\ download' = download
            /\ pc' = "status"
       ELSE /\ download' = [idx |-> 1, downloaded |-> <<>>]
            /\ scrape' = scrape
            /\ pc' = "download_loop"
  /\ UNCHANGED <<fnVars, faults, pending_data, companies, cur, results, tracker,
                 scraper,
                 crawl, deep, contact>>

\* _download_catalogs: one turn of the loop, downloader.download(url, company_name)
DownloadOne ==
  /\ pc = "download_loop"
  /\ download.idx <= Len(scrape.catalog_links)
  /\ LET url == scrape.catalog_links[download.idx]
     IN \E response \in DownloadResponses(url) :
          LET r == downloader_download(url, scrape.result.company_name,
                                       scraper.downloaded_hashes, scraper.disk, response)
          IN /\ Faulty(IF response = "ok" THEN 0 ELSE 1)
             /\ scraper' = [scraper EXCEPT !.downloaded_hashes = r.hashes, !.disk = r.disk]
             /\ download' = [idx |-> download.idx + 1,
                             downloaded |-> IF r.success
                                              THEN Append(download.downloaded, r.file_path)
                                              ELSE download.downloaded]
  /\ UNCHANGED <<fnVars, pending_data, companies, cur, results, tracker, pc, scrape,
                 crawl, deep, contact>>

\* scrape: catalog_count and catalog_files from the downloaded files
DownloadEnd ==
  /\ pc = "download_loop"
  /\ download.idx > Len(scrape.catalog_links)
  /\ scrape' = [scrape EXCEPT !.result.catalog_count = Len(download.downloaded),
                              !.result.catalog_files = download.downloaded,
                              !.phases = @ \cup {"download"}]
  /\ download' = NoDownload
  /\ pc' = "status"
  /\ UNCHANGED <<fnVars, faults, pending_data, companies, cur, results, tracker,
                 scraper,
                 crawl, deep, contact>>

\* scrape: result['status'] = determine_status(...), and the return
SetStatus ==
  /\ pc = "status"
  /\ scrape' = [scrape EXCEPT
                  !.result.status =
                     determine_status(scrape.result.catalog_count,
                                      has_contact_info(scrape.result))]
  /\ pc' = "record"
  /\ UNCHANGED <<fnVars, faults, pending_data, companies, cur, results, tracker,
                 scraper,
                 crawl, deep, contact, download>>

\* The places of scrape's try block outside the strategies' own handlers
TryPhases ==
  {"fetch_main", "find_all", "discover", "contact", "contact_loop", "download",
   "download_loop", "status"}

\* An error raised inside the try block of scrape: the except clause sets
\* the status and the result is returned; an error the clause does not catch
\* leaves process_company and the loop of main.
ScrapeException ==
  /\ pc \in TryPhases
  /\ Faulty(1)
  /\ \E exc \in Raisable :
       IF except_Exception(exc)
         THEN /\ scrape' = [scrape EXCEPT !.result.status = STATUS_ERROR, !.raised = TRUE]
              /\ pc' = "record"
         ELSE /\ scrape' = [scrape EXCEPT !.raised = TRUE]
              /\ pc' = "halted"
  /\ crawl' = NoCrawl /\ contact' = NoContactLoop /\ download' = NoDownload
  /\ UNCHANGED <<fnVars, pending_data, companies, cur, results, tracker, scraper, deep>>

\* main: the rest of the loop body, with the result of process_company
RecordResult ==
  /\ pc = "record"
  /\ results' = AppendResult(results, scrape.result)
  /\ tracker' = increment(tracker, scrape.result.status)
  /\ pending_data' = IF validate_company_data(scrape.result)
                       THEN append_company(pending_data, scrape.result).pending_data
                       ELSE pending_data
  /\ scrape' = NoScrape
  /\ pc' = "loop"
  /\ UNCHANGED <<fnVars, faults, companies, cur, scraper, crawl, deep, contact,
                 download>>

\* main: the with block is left, GenericScraper.close()
CloseScraper ==
  /\ pc = "loop" /\ cur = Len(companies)
  /\ scraper' = [scraper EXCEPT !.strategy_manager = <<>>]
  /\ pc' = "closed"
  /\ UNCHANGED <<fnVars, faults, pending_data, companies, cur, results, tracker, scrape,
                 crawl, deep, contact, download>>

Next ==
  \/ ProcessCompanyNoWebsite \/ ScrapeBegin \/ FetchMain \/ FindAllBegin
  \/ CrawlVisit \/ CrawlEnd
  \/ StrategiesBegin \/ DeepVisit \/ DeepEnd \/ StrategyException
  \/ ContactBegin \/ ContactVisit \/ ContactEnd
  \/ DownloadBegin \/ DownloadOne \/ DownloadEnd
  \/ SetStatus \/ ScrapeException \/ RecordResult \/ CloseScraper

Spec == Init /\ [][Next]_vars

(***************************************************************************)
(* Properties of the batch                                                 *)
(***************************************************************************)

\* The places of scrape() before the result is returned
ScrapePhases == TryPhases \cup {"strategies", "deep"}

\* The result scrape() is about to return (not the record process_company
\* makes for a company without a website)
ScrapeReturned == pc = "record" /\ scrape.website # <<>>

AllPhases == {"discovery", "contact", "download"}

\* C4: the result of scrape is created with status ERROR and keeps it while
\* the phases run; the status returned is ERROR exactly when the main page
\* was not fetched or an error was raised in the try block; otherwise it is
\* SUCCESS, PARTIAL or FAILED, equals determine_status(catalog_count,
\* has_contact_info(result)), and discovery, contact extraction and download
\* have all completed.
C4_StatusAssignedLast ==
  /\ pc \in ScrapePhases => scrape.result.status = STATUS_ERROR
  /\ ScrapeReturned =>
       /\ scrape.result.status = STATUS_ERROR
            <=> (scrape.main_soup = <<>> \/ scrape.raised)
       /\ scrape.result.status # STATUS_ERROR =>
            /\ scrape.result.status \in {STATUS_SUCCESS, STATUS_PARTIAL, STATUS_FAILED}
            /\ scrape.result.status =
                 determine_status(scrape.result.catalog_count,
                                  has_contact_info(scrape.result))
            /\ scrape.phases = AllPhases

\* A scrape that fetched the main page and found a catalog but no contact
\* field returns PARTIAL.
C4_Witness ==
  /\ ScrapeReturned
  /\ scrape.main_soup # <<>> /\ ~scrape.raised
  /\ scrape.result.status = STATUS_PARTIAL
  /\ scrape.result.catalog_count > 0

\* C5: an error raised while a company is scraped is caught and gives the
\* company the status ERROR; the batch never halts; the results are one per
\* processed company, in the order of the input; while companies are left
\* the next one can be started, and when the scraper is closed every company
\* of the input has its result.
C5_FailureNeverHaltsBatch ==
  /\ pc # "halted"
  /\ (pc = "loop" /\ cur < Len(companies)) =>
       ENABLED (ProcessCompanyNoWebsite \/ ScrapeBegin)
  /\ (pc = "record" /\ scrape.raised) => scrape.result.status = STATUS_ERROR
  /\ Len(results) = IF pc \in {"loop", "closed"} THEN cur ELSE cur - 1
  /\ \A i \in DOMAIN results : results[i].company_name = companies[i].company_name
  /\ pc = "closed" => Len(results) = Len(companies)

\* The first company's scrape raised an error after its contact fields were
\* read, the second company was scraped all the same and succeeded.
C5_Witness ==
  /\ pc = "closed" /\ Len(results) = 2
  /\ results[1].status = STATUS_ERROR /\ results[1].email # <<>>
  /\ results[2].status = STATUS_SUCCESS

\* The results with a given status
CountOf(status) == Cardinality({i \in DOMAIN results : results[i].status = status})

\* The rows of the report for a list of results: those of the results with
\* status SUCCESS or PARTIAL, in order
RECURSIVE ReportRows(_)
ReportRows(res) ==
  IF res = <<>> THEN <<>>
  ELSE (IF Head(res).status \in {STATUS_SUCCESS, STATUS_PARTIAL}
          THEN <<prepare_data(Head(res))>> ELSE <<>>)
         \o ReportRows(Tail(res))

\* C6: between two companies and after the loop, every processed company has
\* incremented exactly one of the counters success, partial, failed, errors,
\* the one of its status; the report holds the rows of exactly the results
\* with status SUCCESS or PARTIAL, so that it has success + partial rows.
C6_CountersAndReport ==
  pc \in {"loop", "closed"} =>
    /\ tracker.current = cur /\ Len(results) = cur
    /\ tracker.success = CountOf(STATUS_SUCCESS)
    /\ tracker.partial = CountOf(STATUS_PARTIAL)
    /\ tracker.failed = CountOf(STATUS_FAILED)
    /\ tracker.errors = CountOf(STATUS_ERROR)
    /\ tracker.success + tracker.partial + tracker.failed + tracker.errors = cur
    /\ pending_data = ReportRows(results)
    /\ Len(pending_data) = written_to_excel(tracker)

\* A batch of a company with status PARTIAL, which is in the report, and one
\* with status ERROR or FAILED, which is counted only.
C6_Witness ==
  /\ pc = "closed"
  /\ tracker.partial = 1 /\ tracker.failed + tracker.errors = 1
  /\ Len(pending_data) = 1

\* C9: one call of _find_all_catalogs visits (adds to visited_urls and
\* fetches) at most max_pages candidate pages.
C9_PageBudget ==
  pc = "discover" =>
    /\ crawl.pages_checked <= max_pages
    /\ Cardinality(scraper.visited_urls) = crawl.pages_checked

\* The budget is used up while candidate pages are left, a sub-page was
\* harvested and a fetch has failed.
C9_Witness ==
  /\ pc = "discover"
  /\ crawl.pages_checked = max_pages
  /\ crawl.idx <= Len(crawl.catalog_pages)
  /\ Len(crawl.catalog_pages) > Len(common_catalog_paths) + 1
  /\ faults > 0

\* C10: when the scrape of a company starts, the visited sets of the scraper
\* and of the strategy are empty; and a batch of the same company twice,
\* without a failure of the network, finds the same number of catalogs both
\* times.
C10_NoCrawlStateCrossesCompanies ==
  /\ pc = "fetch_main" =>
       /\ scraper.visited_urls = {}
       /\ \A i \in DOMAIN scraper.strategy_manager :
            scraper.strategy_manager[i].visited_urls = {}
  /\ (pc = "closed" /\ faults = 0 /\ Len(companies) = 2 /\ companies[1] = companies[2]) =>
       results[1].catalog_count = results[2].catalog_count

(***************************************************************************)
(* StrategyManager.execute_all, over a list of strategies: function-level  *)
(* specification.  A strategy is given by what its execute(website) does:  *)
(* it raises, or it returns (catalogs, soup).                              *)
(***************************************************************************)

\* Longest list of strategies.
MaxStrategies == 3

CatalogU == <<"u", ".", "p", "d", "f">>
CatalogV == <<"v", ".", "p", "d", "f">>
SoupA == [soup |-> <<>>, contact |-> NoContact, locs |-> <<>>]
SoupB == [soup |-> <<ElemCatalog>>, contact |-> NoContact, locs |-> <<>>]

\* CatalogStrategy.execute: ([], None) when the main page is not fetched,
\* (catalogs, soup) otherwise; or an error raised on the way.
Executes(raises, catalogs, soup) ==
  [raises |-> raises, catalogs |-> catalogs, soup |-> soup]

StrategyChoices ==
  {Executes(<<e>>, {}, <<>>) : e \in Raisable}
    \cup {Executes(<<>>, {}, <<>>),
          Executes(<<>>, {}, <<SoupA>>),
          Executes(<<>>, {CatalogU}, <<SoupA>>),
          Executes(<<>>, {CatalogU, CatalogV}, <<SoupB>>)}

StrategyLists ==
  UNION {[1..n -> StrategyChoices] : n \in 1..MaxStrategies}

\* execute_all before its loop: all_catalogs, last_soup, the strategy the loop
\* is at; executed lists the strategies whose execute was called, raised is
\* the error that left execute_all.
ExecuteAllStart ==
  [all_catalogs |-> {}, last_soup |-> <<>>, i |-> 1, executed |-> <<>>,
   done |-> FALSE, raised |-> <<>>]

\* An except clause that lets the error leave execute_all.
execute_all_except_reraise(st, exc) ==
  [st EXCEPT !.raised = <<exc>>, !.done = TRUE]

\* execute_all: except Exception as e: ... continue
execute_all_except(st, exc) ==
  IF except_Exception(exc)
    THEN [st EXCEPT !.i = @ + 1]
    ELSE [st EXCEPT !.raised = <<exc>>, !.done = TRUE]

\* The body of the loop without the break on success.
execute_all_body_no_break(st, strategy, stop_on_success, min_catalogs) ==
  LET called == [st EXCEPT !.executed = Append(@, st.i)]
  IN IF strategy.raises # <<>>
       THEN execute_all_except(called, strategy.raises[1])
       ELSE [called EXCEPT
               !.last_soup = IF strategy.soup # <<>> THEN strategy.soup ELSE @,
               !.all_catalogs = @ \cup strategy.catalogs,
               !.i = @ + 1]

\* execute_all: the body of the loop for one strategy
execute_all_body(st, strategy, stop_on_success, min_catalogs) ==
  LET called == [st EXCEPT !.executed = Append(@, st.i)]
  IN IF strategy.raises # <<>>
       THEN execute_all_except(called, strategy.raises[1])
       ELSE LET with_soup ==
                  IF strategy.soup # <<>>
                    THEN [called EXCEPT !.last_soup = strategy.soup]
                    ELSE called
            IN IF strategy.catalogs # {}
                 THEN LET all == with_soup.all_catalogs \cup strategy.catalogs
                      IN IF stop_on_success /\ Cardinality(all) >= min_catalogs
                           THEN [with_soup EXCEPT !.all_catalogs = all, !.done = TRUE]
                           ELSE [with_soup EXCEPT !.all_catalogs = all, !.i = @ + 1]
                 ELSE [with_soup EXCEPT !.i = @ + 1]

\* execute_all: the loop over primary_strategies, from state st on
RECURSIVE execute_all_loop(_, _, _, _)
execute_all_loop(st, strategies, stop_on_success, min_catalogs) ==
  IF st.done \/ st.i > Len(strategies) THEN st
  ELSE execute_all_loop(
         execute_all_body(st, strategies[st.i], stop_on_success, min_catalogs),
         strategies, stop_on_success, min_catalogs)

\* StrategyManager.execute_all(website, stop_on_success, min_catalogs): the
\* values it can return, list(all_catalogs) in any order, or the error raised
execute_all(strategies, stop_on_success, min_catalogs) ==
  LET st == execute_all_loop(ExecuteAllStart, strategies, stop_on_success, min_catalogs)
  IN {[raised |-> st.raised, catalogs |-> l, soup |-> st.last_soup,
       executed |-> st.executed] : l \in ListsOf(st.all_catalogs)}

\* What _find_all_catalogs returned to scrape
CrawlResults == {<<>>, <<CatalogV>>}

\* The catalogs of the list that should_download_url accepts
FilterDownloadable(catalog_links) ==
  LET Accepted(url) == should_download_url(url, <<>>).ok
  IN SelectSeq(catalog_links, Accepted)

InitStrategies ==
  /\ input \in {[strategies |-> s, stop_on_success |-> b, min_catalogs |-> m,
                 catalog_links |-> c, use_multi_strategy |-> u] :
                  s \in StrategyLists, b \in BOOLEAN, m \in 1..2, c \in CrawlResults,
                  u \in BOOLEAN}
  /\ op = "none"
  /\ arg = <<>>
  /\ ret = <<>>
  /\ pending_data = <<>>
  /\ ProgOff

\* manager.execute_all(website, stop_on_success, min_catalogs)
ExecuteAll ==
  /\ op = "none"
  /\ \E r \in execute_all(input.strategies, input.stop_on_success, input.min_catalogs) :
       /\ op' = "execute_all"
       /\ arg' = input
       /\ ret' = r
  /\ UNCHANGED <<input, pending_data, progVars>>

\* scrape after _find_all_catalogs: with no catalog link and use_multi_strategy
\* it calls _try_alternative_strategies, which runs
\* execute_all(website, stop_on_success=True, min_catalogs=1) and filters the
\* catalogs; otherwise it keeps the links of the crawl and no strategy runs
TryAlternativeStrategies ==
  /\ op = "none"
  /\ op' = "scrape"
  /\ arg' = [input EXCEPT !.stop_on_success = TRUE, !.min_catalogs = 1]
  /\ IF input.catalog_links = <<>> /\ input.use_multi_strategy
       THEN \E r \in execute_all(input.strategies, TRUE, 1) :
              ret' = [r EXCEPT !.catalogs = FilterDownloadable(@)]
       ELSE ret' = [raised |-> <<>>, catalogs |-> input.catalog_links, soup |-> <<>>,
                    executed |-> <<>>]
  /\ UNCHANGED <<input, pending_data, progVars>>

NextStrategies == ExecuteAll \/ TryAlternativeStrategies

SpecStrategies == InitStrategies /\ [][NextStrategies]_vars

\* The strategies of a list that raise
Raising(strategies) == {i \in DOMAIN strategies : strategies[i].raises # <<>>}

\* The list with each raising strategy replaced by one that finds nothing
WithoutRaising(strategies) ==
  [i \in DOMAIN strategies |->
     IF i \in Raising(strategies) THEN Executes(<<>>, {}, <<>>) ELSE strategies[i]]

\* C11: a strategy that raises inside execute_all does not make execute_all
\* raise; the strategy after it is executed next, in the order of the list;
\* and execute_all returns what it returns when the raising strategies find
\* nothing instead: the catalogs and the last document of the others.
C11_StrategyFailureIsolated ==
  op = "execute_all" =>
    /\ ret.raised = <<>>
    /\ ret.executed = [k \in 1..Len(ret.executed) |-> k]
    /\ \A i \in Raising(arg.strategies) :
         (i \in 1..Len(ret.executed) /\ i < Len(arg.strategies)) =>
           i + 1 \in 1..Len(ret.executed)
    /\ ret \in execute_all(WithoutRaising(arg.strategies), arg.stop_on_success,
                           arg.min_catalogs)
    /\ {ret.catalogs[k] : k \in DOMAIN ret.catalogs}
         = UNION {arg.strategies[i].catalogs :
                    i \in {k \in 1..Len(ret.executed) : k \notin Raising(arg.strategies)}}

\* The first strategy raises, the second gives a document without catalogs,
\* the third gives catalogs: all three were executed and the catalogs and the
\* document of the third are returned.
C11_Witness ==
  /\ op = "execute_all"
  /\ Len(arg.strategies) = 3
  /\ Raising(arg.strategies) = {1}
  /\ arg.strategies[2].soup = <<SoupA>> /\ arg.strategies[2].catalogs = {}
  /\ ret.executed = <<1, 2, 3>>
  /\ ret.catalogs # <<>>
  /\ ret.soup = <<SoupB>>
  /\ ret.raised = <<>>

(***************************************************************************)
(* GenericScraper._format_phone, and its function-level specification      *)
(***************************************************************************)

DigitChars == {"0", "1", "2", "3", "4", "5", "6", "7", "8", "9"}

\* s[a:b] of Python, for 0 <= a and 0 <= b
PySlice(s, a, b) == SubSeq(s, a + 1, Min2(b, Len(s)))

\* s[a:]
PyFrom(s, a) == SubSeq(s, a + 1, Len(s))

\* re.sub(r'[^\d+]', '', phone)
OnlyDigitsAndPlus(phone) ==
  LET Kept(c) == c \in DigitChars \cup {"+"}
  IN SelectSeq(phone, Kept)

\* re.sub(r'\D', '', phone)
OnlyDigits(phone) ==
  LET Kept(c) == c \in DigitChars
  IN SelectSeq(phone, Kept)

\* _format_phone: the chain that brings the prefix variants to +90
normalize_prefix(cleaned) ==
  IF StartsWith(cleaned, <<"0", "0", "9", "0">>)
    THEN <<"+", "9">> \o PyFrom(cleaned, 2)
  ELSE IF StartsWith(cleaned, <<"9", "0">>) /\ Len(cleaned) = 12
    THEN <<"+">> \o cleaned
  ELSE IF StartsWith(cleaned, <<"0">>) /\ Len(cleaned) = 11
    THEN <<"+", "9">> \o cleaned
  ELSE IF Len(cleaned) = 10 /\ ~StartsWith(cleaned, <<"+">>)
    THEN <<"+", "9", "0">> \o cleaned
  ELSE cleaned

\* A canonical form written with the 0090 prefix.
canonical_phone_0090(cleaned) ==
  <<"0", "0", "9", "0", " ">> \o PySlice(cleaned, 3, 6) \o <<" ">> \o PySlice(cleaned, 6, 9)
    \o <<" ">> \o PySlice(cleaned, 9, 11) \o <<" ">> \o PySlice(cleaned, 11, 13)

\* f"+90 {cleaned[3:6]} {cleaned[6:9]} {cleaned[9:11]} {cleaned[11:13]}"
canonical_phone(cleaned) ==
  <<"+", "9", "0", " ">> \o PySlice(cleaned, 3, 6) \o <<" ">> \o PySlice(cleaned, 6, 9)
    \o <<" ">> \o PySlice(cleaned, 9, 11) \o <<" ">> \o PySlice(cleaned, 11, 13)

\* f"{base} (Dahili: {ext})"
with_extension(base, ext) ==
  base \o <<" ", "(", "D", "a", "h", "i", "l", "i", ":", " ">> \o ext \o <<")">>

\* GenericScraper._format_phone(phone); <<>> is the empty string
format_phone(phone) ==
  IF phone = <<>> THEN <<>>
  ELSE LET cleaned0 == OnlyDigitsAndPlus(phone)
       IN IF Len(cleaned0) < 10 THEN <<>>
          ELSE LET cleaned1 == IF Len(cleaned0) > 15 THEN PySlice(cleaned0, 0, 13) ELSE cleaned0
                   cleaned == normalize_prefix(cleaned1)
               IN IF StartsWith(cleaned, <<"+", "9", "0">>) /\ Len(cleaned) = 13
                    THEN canonical_phone(cleaned)
                  ELSE IF StartsWith(cleaned, <<"+", "9", "0">>) /\ Len(cleaned) > 13
                    THEN LET ext == PyFrom(cleaned, 13)
                         IN IF ext # <<>> THEN with_extension(canonical_phone(cleaned), ext)
                            ELSE canonical_phone(cleaned)
                  ELSE IF Len(cleaned) >= 10 THEN cleaned
                  ELSE <<>>

\* Most digits written after the number.
MaxExtension == 4

Nationals ==
  {<<"2", "1", "2", "5", "5", "5", "0", "0", "1", "1">>,
   <<"5", "3", "2", "1", "2", "3", "4", "5", "6", "7">>,
   <<"8", "5", "0", "9", "0", "0", "9", "0", "0", "0">>}

\* A subscriber number without its area code
ShortNumbers == {<<"5", "5", "5", "0", "0", "1", "1">>}

PhonePrefixes ==
  {<<>>, <<"0">>, <<"9", "0">>, <<"0", "0", "9", "0">>, <<"+", "9", "0">>, <<"+">>,
   <<"0", "0">>}

Extensions == {[i \in 1..n |-> "9"] : n \in 0..MaxExtension}

\* The number as written: run together, or "prefix XXX XXX XX XX ext"
Written(prefix, national, ext, spaced) ==
  IF spaced /\ Len(national) = 10
    THEN prefix \o <<" ">> \o PySlice(national, 0, 3) \o <<" ">> \o PySlice(national, 3, 6)
           \o <<" ">> \o PySlice(national, 6, 8) \o <<"-">> \o PySlice(national, 8, 10)
           \o (IF ext = <<>> THEN <<>> ELSE <<" ", "/", " ">> \o ext)
    ELSE prefix \o national \o ext

PhoneInputs ==
  {[prefix |-> p, national |-> n, ext |-> e, spaced |-> s,
    phone |-> Written(p, n, e, s)] :
     p \in PhonePrefixes, n \in Nationals \cup ShortNumbers, e \in Extensions,
     s \in BOOLEAN}

InitPhone ==
  /\ input \in PhoneInputs
  /\ op = "none"
  /\ arg = <<>>
  /\ ret = <<>>
  /\ pending_data = <<>>
  /\ ProgOff

\* self._format_phone(phone)
FormatPhone ==
  /\ op = "none"
  /\ op' = "format_phone"
  /\ arg' = input.phone
  /\ ret' = format_phone(input.phone)
  /\ UNCHANGED <<input, pending_data, progVars>>

\* self._format_phone(formatted): the value returned is formatted again
FormatPhoneAgain ==
  /\ op = "format_phone"
  /\ ret # <<>>
  /\ op' = "format_phone_again"
  /\ arg' = ret
  /\ ret' = format_phone(ret)
  /\ UNCHANGED <<input, pending_data, progVars>>

NextPhone == FormatPhone \/ FormatPhoneAgain

SpecPhone == InitPhone /\ [][NextPhone]_vars

(***************************************************************************)
(* Phone formatting: the properties                                        *)
(***************************************************************************)

\* "+90 XXX XXX XX XX" from the ten digits of a national number
CanonicalOf(national) ==
  <<"+", "9", "0", " ">> \o SubSeq(national, 1, 3) \o <<" ">> \o SubSeq(national, 4, 6)
    \o <<" ">> \o SubSeq(national, 7, 8) \o <<" ">> \o SubSeq(national, 9, 10)

VariantPrefixes == {<<"0", "0", "9", "0">>, <<"9", "0">>, <<"0">>, <<>>}

\* C14: a ten-digit national number written with the prefix 0090, 90, 0 or
\* none is formatted to "+90 XXX XXX XX XX" of its digits; a value with fewer
\* than ten digits and plus signs is formatted to the empty string.
C14_PrefixVariantsCanonical ==
  op = "format_phone" =>
    /\ (input.prefix \in VariantPrefixes /\ input.national \in Nationals /\ input.ext = <<>>)
         => ret = CanonicalOf(input.national)
    /\ Len(OnlyDigitsAndPlus(arg)) < 10 => ret = <<>>

\* C15: formatting a value that format_phone returned (and that is not empty)
\* returns it unchanged.
C15_FormatIdempotent ==
  op = "format_phone_again" => ret = arg

\* A number with an extension, and a number written with spaces, were
\* formatted and formatted again.
C15_Witness ==
  /\ op = "format_phone_again"
  /\ input.ext # <<>>
  /\ input.spaced
  /\ input.prefix = <<"+", "9", "0">>
  /\ Len(arg) > 17
  /\ ret = arg

(***************************************************************************)
(* The regular expressions of config/settings.py, matched the way re       *)
(* matches them (leftmost, greedy, backtracking), and the phone finders of *)
(* GenericScraper built on them.                                           *)
(***************************************************************************)

\* The atoms of a pattern
Lit(alts) == [k |-> "lit", alts |-> alts]
Cls(set, min, max) == [k |-> "cls", set |-> set, min |-> min, max |-> max]
WordBoundary == [k |-> "wb"]
Optional(body) == [k |-> "opt", body |-> body]

\* No match
NoMatch == 0

\* [\s\.\-], [\s\.\-\/], \d{n}, \(?, \)?
SepChars == Whitespace \cup {".", "-"}
SepSlashChars == SepChars \cup {"/"}
Digits(n) == Cls(DigitChars, n, n)
Sep == Cls(SepChars, 0, 1)
\* set*: a repetition without an upper limit
Star(set) == Cls(set, 0, -1)
SepSlash == Cls(SepSlashChars, 0, 1)

\* The characters that are not \w among those of the modelled texts
NonWordChars == Whitespace \cup {"+", "(", ")", "-", ".", "/", ":", ",", "@", "=", "\"", "{", "}"}

\* \b at the position pos of text (the next character to read has index pos)
AtWordBoundary(text, pos) ==
  (pos > 1 /\ text[pos - 1] \notin NonWordChars)
    # (pos <= Len(text) /\ text[pos] \notin NonWordChars)

\* text has lit at pos
HasAt(text, pos, lit) ==
  pos + Len(lit) - 1 <= Len(text) /\ \A j \in 1..Len(lit) : text[pos + j - 1] = lit[j]

\* How many characters of the set follow from pos, at most max
RECURSIVE Run(_, _, _, _)
Run(set, text, pos, max) ==
  IF max = 0 \/ pos > Len(text) \/ text[pos] \notin set THEN 0
  ELSE 1 + Run(set, text, pos + 1, max - 1)

\* The match of the atoms at pos: the position after the match, or NoMatch.
\* Alternatives are tried in order, a repetition from the longest down, an
\* optional group first with its body.
RECURSIVE Match(_, _, _)
RECURSIVE MatchAlts(_, _, _, _, _)
RECURSIVE MatchReps(_, _, _, _, _)
Match(atoms, text, pos) ==
  IF atoms = <<>> THEN pos
  ELSE LET a == Head(atoms)
           rest == Tail(atoms)
       IN CASE a.k = "lit" -> MatchAlts(a.alts, rest, text, pos, 1)
            [] a.k = "cls" -> MatchReps(a, rest, text, pos, Run(a.set, text, pos, a.max))
            [] a.k = "wb" -> IF AtWordBoundary(text, pos) THEN Match(rest, text, pos)
                             ELSE NoMatch
            [] a.k = "opt" -> LET r == Match(a.body \o rest, text, pos)
                              IN IF r # NoMatch THEN r ELSE Match(rest, text, pos)

MatchAlts(alts, rest, text, pos, i) ==
  IF i > Len(alts) THEN NoMatch
  ELSE LET r == IF HasAt(text, pos, alts[i]) THEN Match(rest, text, pos + Len(alts[i]))
                ELSE NoMatch
       IN IF r = NoMatch THEN MatchAlts(alts, rest, text, pos, i + 1) ELSE r

MatchReps(a, rest, text, pos, n) ==
  IF n < a.min THEN NoMatch
  ELSE LET r == Match(rest, text, pos + n)
       IN IF r = NoMatch THEN MatchReps(a, rest, text, pos, n - 1) ELSE r

\* The match of the pattern at every position of the text
MatchesAt(atoms, text) == [pos \in 1..(Len(text) + 1) |-> Match(atoms, text, pos)]

\* re.findall from pos on, at is MatchesAt of the pattern: the matches from
\* left to right, each search resuming where the last match ended
RECURSIVE FindAllFrom(_, _, _)
FindAllFrom(at, text, pos) ==
  LET starts == {p \in pos..(Len(text) + 1) : at[p] # NoMatch}
      p == Min(starts)
  IN IF starts = {} THEN <<>>
     ELSE <<SubSeq(text, p, at[p] - 1)>>
            \o FindAllFrom(at, text, IF at[p] > p THEN at[p] ELSE p + 1)

\* re.findall(pattern, text) of a pattern without a capturing group
findall(atoms, text) == FindAllFrom(MatchesAt(atoms, text), text, 1)

\* (?:\+90|0090)
IntlPrefix == Lit(<<<<"+", "9", "0">>, <<"0", "0", "9", "0">>>>)

PHONE_PATTERN ==
  <<Optional(<<Lit(<<<<"+", "9", "0">>, <<"0", "0", "9", "0">>, <<"9", "0">>, <<"0">>>>), SepSlash>>),
    Cls({"("}, 0, 1), Digits(3), Cls({")"}, 0, 1), SepSlash,
    Digits(3), SepSlash, Digits(2), SepSlash, Digits(2)>>

PHONE_PATTERNS ==
  << <<IntlPrefix, Sep, Cls({"("}, 0, 1), Digits(3), Cls({")"}, 0, 1), Sep,
       Digits(3), Sep, Digits(2), Sep, Digits(2)>>,
     <<WordBoundary, Lit(<<<<"0">>>>), Digits(3), Sep, Digits(3), Sep, Digits(2), Sep, Digits(2),
       WordBoundary>>,
     <<Lit(<<<<"(", "0">>>>), Digits(3), Lit(<<<<")">>>>), Sep, Digits(3), Sep, Digits(2), Sep, Digits(2)>>,
     <<WordBoundary, Digits(3), Cls(SepChars, 1, 1), Digits(3), Cls(SepChars, 1, 1), Digits(2),
       Cls(SepChars, 1, 1), Digits(2), WordBoundary>>,
     <<Lit(<<<<"(", "0">>>>), Digits(3), Lit(<<<<")">>>>), Sep, Digits(3), Sep, Digits(2), Sep, Digits(2),
       Sep, Cls(DigitChars, 0, 4)>>,
     <<IntlPrefix, Sep, Digits(3), Sep, Digits(3), Sep, Digits(4)>>,
     <<WordBoundary, Lit(<<<<"0">>>>), Cls({"1", "2", "3", "4", "5"}, 1, 1), Digits(9),
       WordBoundary>> >>

FAX_LABELS ==
  <<<<"f", "a", "x">>,
   <<"f", "a", "k", "s">>,
   <<"b", "e", "l", "g", "e", "g", "e", "c", "e", "r">>,
   <<"b", "e", "l", "g", "e", "g", "e", "c-cedilla", "e", "r">>,
   <<"f", ":">>>>

INVALID_PHONE_STARTS ==
  {<<"0", "0", "0", "0">>, <<"1", "1", "1", "1">>, <<"2", "2", "2", "2">>, <<"3", "3", "3", "3">>,
   <<"4", "4", "4", "4">>, <<"5", "5", "5", "5">>, <<"6", "6", "6", "6">>, <<"7", "7", "7", "7">>,
   <<"8", "8", "8", "8">>, <<"9", "9", "9", "9">>, <<"1", "2", "3", "4">>, <<"0", "1", "2", "3">>,
   <<"9", "8", "7", "6">>, <<"0", "9", "0", "0">>, <<"0", "8", "0", "0">>}

VALID_AREA_CODES ==
  {<<"2", "1", "2">>, <<"2", "1", "6">>, <<"3", "1", "2">>, <<"2", "3", "2">>,
   <<"2", "2", "4">>, <<"2", "4", "2">>, <<"3", "2", "2">>, <<"3", "4", "2">>,
   <<"2", "6", "2">>, <<"3", "2", "4">>, <<"3", "5", "2">>, <<"2", "2", "2">>,
   <<"2", "5", "8">>, <<"2", "3", "6">>, <<"2", "6", "4">>, <<"3", "6", "2">>,
   <<"4", "6", "2">>, <<"4", "1", "2">>, <<"4", "1", "4">>, <<"4", "2", "2">>,
   <<"4", "4", "2">>, <<"2", "7", "4">>, <<"2", "5", "2">>, <<"2", "8", "4">>,
   <<"2", "6", "6">>, <<"3", "7", "2">>, <<"3", "3", "2">>, <<"2", "2", "6">>,
   <<"2", "8", "8">>, <<"2", "8", "6">>, <<"2", "5", "6">>, <<"2", "4", "6">>,
   <<"2", "4", "8">>, <<"5", "3", "0">>, <<"5", "3", "1">>, <<"5", "3", "2">>,
   <<"5", "3", "3">>, <<"5", "3", "4">>, <<"5", "3", "5">>, <<"5", "3", "6">>,
   <<"5", "3", "7">>, <<"5", "3", "8">>, <<"5", "3", "9">>, <<"5", "4", "0">>,
   <<"5", "4", "1">>, <<"5", "4", "2">>, <<"5", "4", "3">>, <<"5", "4", "4">>,
   <<"5", "4", "5">>, <<"5", "4", "6">>, <<"5", "4", "7">>, <<"5", "4", "8">>,
   <<"5", "4", "9">>, <<"5", "5", "0">>, <<"5", "5", "1">>, <<"5", "5", "2">>,
   <<"5", "5", "3">>, <<"5", "5", "4">>, <<"5", "5", "5">>, <<"5", "5", "6">>,
   <<"5", "5", "7">>, <<"5", "5", "8">>, <<"5", "5", "9">>, <<"5", "0", "1">>,
   <<"5", "0", "5">>, <<"5", "0", "6">>, <<"5", "0", "7">>}

PHONE_LABELS ==
  <<<<"t", "e", "l">>,
   <<"t", "e", "l", "e", "f", "o", "n">>,
   <<"g", "s", "m">>,
   <<"c", "e", "p">>,
   <<"m", "o", "b", "i", "l">>,
   <<"s", "a", "b", "i", "t">>,
   <<"s", "a", "n", "t", "r", "a", "l">>,
   <<"p", "h", "o", "n", "e">>,
   <<"m", "o", "b", "i", "l", "e">>,
   <<"c", "e", "l", "l">>,
   <<"c", "a", "l", "l">>,
   <<"h", "a", "n", "d", "y">>,
   <<"t", ":">>,
   <<"p", ":">>>>

\* text.find(sub): the index from 0 of the first occurrence, -1 for none
find(text, sub) ==
  LET at == {i \in 1..(Len(text) - Len(sub) + 1) : HasAt(text, i, sub)}
  IN IF at = {} THEN -1 ELSE Min(at) - 1

\* any(fax in context for fax in FAX_LABELS), the context being the text from 30
\* characters before the first occurrence of the match to 10 after it, lowered
FaxInContext(text, match_pos, match) ==
  LET context_start == Max2(0, match_pos - 30)
      context_end == Min2(Len(text), match_pos + Len(match) + 10)
      context == Lower(PySlice(text, context_start, context_end))
  IN \E i \in 1..Len(FAX_LABELS) : Contains(context, FAX_LABELS[i])

\* _find_phones_in_text, the fax check: whether the match is left out for
\* the fax label around its first occurrence in the text
phone_is_fax(text, match) ==
  LET match_pos == find(text, match)
  IN match_pos >= 0 /\ FaxInContext(text, match_pos, match)

\* _find_phones_in_text, the body of the inner loop: the state [phones,
\* seen_digits] after the match
find_phones_match(text, st, match) ==
  LET formatted == format_phone(match)
      digits == OnlyDigits(formatted)
      last_10 == PyFrom(digits, Max2(0, Len(digits) - 10))
      area_code == IF StartsWith(digits, <<"9", "0">>) /\ Len(digits) >= 12 THEN PySlice(digits, 2, 5)
                   ELSE IF StartsWith(digits, <<"0">>) /\ Len(digits) >= 11 THEN PySlice(digits, 1, 4)
                   ELSE IF Len(digits) = 10 THEN PySlice(digits, 0, 3)
                   ELSE <<>>
  IN IF formatted = <<>> THEN st
     ELSE IF Len(digits) < 10 THEN st
     ELSE IF Len(digits) > 14 THEN st
     ELSE IF last_10 \in st.seen_digits THEN st
     ELSE IF \E inv \in INVALID_PHONE_STARTS : StartsWith(digits, inv) \/ StartsWith(last_10, inv)
       THEN st
     ELSE IF area_code # <<>> /\ area_code \notin VALID_AREA_CODES
               /\ ~(Len(digits) = 10 \/ Len(digits) = 11 \/ Len(digits) = 12)
       THEN st
     ELSE IF phone_is_fax(text, match) THEN st
     ELSE [phones |-> Append(st.phones, formatted),
           seen_digits |-> st.seen_digits \cup {last_10}]

RECURSIVE find_phones_matches(_, _, _)
find_phones_matches(text, st, matches) ==
  IF matches = <<>> THEN st
  ELSE find_phones_matches(text, find_phones_match(text, st, Head(matches)), Tail(matches))

RECURSIVE find_phones_patterns(_, _, _)
find_phones_patterns(text, st, patterns) ==
  IF patterns = <<>> THEN st
  ELSE find_phones_patterns(text, find_phones_matches(text, st, findall(Head(patterns), text)),
                            Tail(patterns))

\* GenericScraper._find_phones_in_text(text)
find_phones_in_text(text) ==
  find_phones_patterns(text, [phones |-> <<>>, seen_digits |-> {}],
                       PHONE_PATTERNS \o <<PHONE_PATTERN>>).phones

\* _extract_from_labeled_patterns: PHONE_LABELS and the labels added to them
extended_phone_labels ==
  PHONE_LABELS \o
  <<<<"t", "e", "l", ".">>,
   <<"t", "e", "l", ":">>,
   <<"t", "e", "l", "e", "f", "o", "n", ":">>,
   <<"p", "h", "o", "n", "e", ":">>,
   <<"g", "s", "m", ":">>,
   <<"c", "e", "p", ":">>,
   <<"m", "o", "b", "i", "l", ":">>,
   <<"t", ".">>,
   <<"f", "o", "n">>,
   <<"n", "u", "m", "a", "r", "a", "s", "dotless-i">>,
   <<"n", "u", "m", "a", "r", "a", "s", "i">>,
   <<"n", "o", ":">>,
   <<"s", "a", "n", "t", "r", "a", "l">>,
   <<"p", "b", "x">>>>

\* [+\d\s\-\(\)\/\.]
NumberChars == DigitChars \cup Whitespace \cup {"+", "-", "(", ")", "/", "."}

\* The two patterns of a label. They are written in f-strings, where {10,25}
\* stands for the tuple (10, 25): the patterns are
\* (?:label)[\s:]*([+\d\s\-\(\)\/\.](10, 25)) and
\* (?:label)\s*[:=]?\s*([+\d\s\-\(\)\/\.](10, 25))
labeled_patterns(label) ==
  << <<Lit(<<label>>), Star(Whitespace \cup {":"}), Cls(NumberChars, 1, 1), Lit(<<<<"1", "0", ",", " ", "2", "5">>>>)>>,
     <<Lit(<<label>>), Star(Whitespace), Cls({":", "="}, 0, 1), Star(Whitespace),
       Cls(NumberChars, 1, 1), Lit(<<<<"1", "0", ",", " ", "2", "5">>>>)>> >>

\* Whether one of the patterns from i on matches in the text, lowered for
\* re.IGNORECASE
RECURSIVE labeled_found(_, _, _)
labeled_found(patterns, lowered, i) ==
  IF i > Len(patterns) THEN FALSE
  ELSE findall(patterns[i], lowered) # <<>> \/ labeled_found(patterns, lowered, i + 1)

RECURSIVE AllLabeledPatterns(_)
AllLabeledPatterns(labels) ==
  IF labels = <<>> THEN <<>>
  ELSE labeled_patterns(Head(labels)) \o AllLabeledPatterns(Tail(labels))

\* _extract_from_labeled_patterns, the phones: a match of a pattern with two
\* groups is a tuple, on which _format_phone raises TypeError; without a
\* match contact['phones'] stays as it is
labeled_phones_raise(page_text) ==
  labeled_found(AllLabeledPatterns(extended_phone_labels), Lower(page_text), 1)

\* x in list
InSeq(x, list) == \E i \in 1..Len(list) : list[i] = x

(***************************************************************************)
(* GenericScraper._is_valid_email and GenericScraper._is_valid_address     *)
(***************************************************************************)

LowerLetters ==
  {"a", "b", "c", "d", "e", "f", "g", "h", "i", "j", "k", "l", "m", "n", "o", "p", "q", "r",
   "s", "t", "u", "v", "w", "x", "y", "z"}

UpperLetters ==
  {"A", "B", "C", "D", "E", "F", "G", "H", "I", "J", "K", "L", "M", "N", "O", "P", "Q", "R",
   "S", "T", "U", "V", "W", "X", "Y", "Z"}

\* s.count(c)
CountChar(s, c) == Cardinality({i \in 1..Len(s) : s[i] = c})

\* any(p in s for p in patterns)
ContainsAny(s, patterns) == \E i \in 1..Len(patterns) : Contains(s, patterns[i])

\* re.search(pattern, text)
Search(atoms, text) == \E pos \in 1..(Len(text) + 1) : Match(atoms, text, pos) # NoMatch

\* s.isdigit()
IsDigit(s) == s # <<>> /\ \A i \in 1..Len(s) : s[i] \in DigitChars

Max(S) == CHOOSE x \in S : \A y \in S : x >= y

\* s.replace(old, '')
RECURSIVE Remove(_, _)
Remove(s, old) ==
  IF s = <<>> THEN <<>>
  ELSE IF StartsWith(s, old) THEN Remove(SubSeq(s, Len(old) + 1, Len(s)), old)
  ELSE <<Head(s)>> \o Remove(Tail(s), old)

\* s.split(c)[-1]
AfterLast(s, c) ==
  LET at == {i \in 1..Len(s) : s[i] = c}
  IN IF at = {} THEN s ELSE SubSeq(s, Max(at) + 1, Len(s))

EMAIL_EXCLUDE_DOMAINS ==
  <<<<"e", "x", "a", "m", "p", "l", "e", ".", "c", "o", "m">>, <<"t", "e", "s", "t", ".", "c", "o", "m">>, <<"d", "o", "m", "a", "i", "n", ".", "c", "o", "m">>,
    <<"e", "m", "a", "i", "l", ".", "c", "o", "m">>, <<"y", "o", "u", "r", "s", "i", "t", "e", ".", "c", "o", "m">>>>

EMAIL_EXCLUDE_EXTENSIONS ==
  <<<<".", "p", "n", "g">>, <<".", "j", "p", "g">>, <<".", "j", "p", "e", "g">>,
    <<".", "g", "i", "f">>, <<".", "s", "v", "g">>, <<".", "w", "e", "b", "p">>>>

\* [a-zA-Z0-9._%+\-]+@[a-zA-Z0-9.\-]+\.[a-zA-Z]{2,}
EMAIL_PATTERN ==
  <<Cls(LowerLetters \cup UpperLetters \cup DigitChars \cup {".", "_", "%", "+", "-"}, 1, -1),
    Lit(<<<<"@">>>>),
    Cls(LowerLetters \cup UpperLetters \cup DigitChars \cup {".", "-"}, 1, -1),
    Lit(<<<<".">>>>),
    Cls(LowerLetters \cup UpperLetters, 2, -1)>>

placeholder_patterns ==
  <<<<"e", "x", "a", "m", "p", "l", "e", ".", "c", "o", "m">>, <<"t", "e", "s", "t", ".", "c", "o", "m">>, <<"s", "a", "m", "p", "l", "e", ".", "c", "o", "m">>,
    <<"d", "e", "m", "o", ".", "c", "o", "m">>, <<"d", "u", "m", "m", "y", ".", "c", "o", "m">>, <<"e", "m", "a", "i", "l", "@", "e", "m", "a", "i", "l">>,
    <<"y", "o", "u", "r", "@", "e", "m", "a", "i", "l">>, <<"n", "a", "m", "e", "@", "e", "m", "a", "i", "l">>, <<"u", "s", "e", "r", "@", "e", "m", "a", "i", "l">>,
    <<"x", "x", "x", "@">>, <<"a", "b", "c", "@", "a", "b", "c">>, <<"i", "n", "f", "o", "@", "i", "n", "f", "o", ".">>,
    <<"a", "d", "m", "i", "n", "@", "a", "d", "m", "i", "n", ".">>, <<"@", "l", "o", "c", "a", "l", "h", "o", "s", "t">>, <<"@", "d", "o", "m", "a", "i", "n", ".", "c", "o", "m">>,
    <<"@", "y", "o", "u", "r", "s", "i", "t", "e">>, <<"@", "y", "o", "u", "r", "d", "o", "m", "a", "i", "n">>, <<"p", "l", "a", "c", "e", "h", "o", "l", "d", "e", "r">>,
    <<"n", "o", "r", "e", "p", "l", "y", "@", "e", "x", "a", "m", "p", "l", "e">>, <<"n", "o", "-", "r", "e", "p", "l", "y", "@", "e", "x", "a", "m", "p", "l", "e">>>>

exact_placeholders ==
  <<<<"i", "n", "f", "o", "@", "i", "n", "f", "o", ".", "c", "o", "m">>, <<"t", "e", "s", "t", "@", "t", "e", "s", "t", ".", "c", "o", "m">>, <<"a", "d", "m", "i", "n", "@", "a", "d", "m", "i", "n", ".", "c", "o", "m">>,
    <<"e", "m", "a", "i", "l", "@", "e", "m", "a", "i", "l", ".", "c", "o", "m">>, <<"m", "a", "i", "l", "@", "m", "a", "i", "l", ".", "c", "o", "m">>, <<"u", "s", "e", "r", "@", "u", "s", "e", "r", ".", "c", "o", "m">>>>

\* _is_valid_email without its checks of excluded domains and placeholders.
is_valid_email_placeholders_pass(email) ==
  LET email_lower == Strip(Lower(email))
      at == CHOOSE i \in 1..Len(email_lower) : email_lower[i] = "@"
      local_part == SubSeq(email_lower, 1, at - 1)
      domain == SubSeq(email_lower, at + 1, Len(email_lower))
      tld == AfterLast(domain, ".")
  IN /\ email # <<>>
     /\ Len(email_lower) >= 6
     /\ CountChar(email_lower, "@") = 1
     /\ \A i \in 1..Len(EMAIL_EXCLUDE_EXTENSIONS) :
          ~EndsWith(email_lower, EMAIL_EXCLUDE_EXTENSIONS[i])
     /\ local_part # <<>>
     /\ domain # <<>> /\ Contains(domain, <<".">>)
     /\ Len(tld) >= 2 /\ Len(tld) <= 10
     /\ ~IsDigit(Remove(domain, <<".">>))
     /\ Match(EMAIL_PATTERN, email, 1) # NoMatch

\* GenericScraper._is_valid_email(email)
is_valid_email(email) ==
  LET email_lower == Strip(Lower(email))
      at == CHOOSE i \in 1..Len(email_lower) : email_lower[i] = "@"
      local_part == SubSeq(email_lower, 1, at - 1)
      domain == SubSeq(email_lower, at + 1, Len(email_lower))
      tld == AfterLast(domain, ".")
  IN /\ email # <<>>
     /\ Len(email_lower) >= 6
     /\ CountChar(email_lower, "@") = 1
     /\ \A i \in 1..Len(EMAIL_EXCLUDE_EXTENSIONS) :
          ~EndsWith(email_lower, EMAIL_EXCLUDE_EXTENSIONS[i])
     /\ ~ContainsAny(email_lower, EMAIL_EXCLUDE_DOMAINS)
     /\ ~ContainsAny(email_lower, placeholder_patterns)
     /\ ~InSeq(email_lower, exact_placeholders)
     /\ local_part # <<>>
     /\ domain # <<>> /\ Contains(domain, <<".">>)
     /\ Len(tld) >= 2 /\ Len(tld) <= 10
     /\ ~IsDigit(Remove(domain, <<".">>))
     /\ Match(EMAIL_PATTERN, email, 1) # NoMatch

invalid_patterns ==
  <<<<"g", "e", "r", "e", "k", "m", "e", "k", "t", "e", "d", "i", "r">>, <<"g", "e", "r", "e", "k", "l", "i", "d", "i", "r">>, <<"y", "a", "p", "dotless-i", "l", "m", "a", "l", "dotless-i", "d", "dotless-i", "r">>,
    <<"y", "a", "p", "dotless-i", "l", "dotless-i", "r">>, <<"e", "d", "i", "l", "m", "e", "l", "i", "d", "i", "r">>, <<"e", "d", "i", "l", "m", "e", "k", "t", "e", "d", "i", "r">>,
    <<"a", "l", "dotless-i", "n", "m", "a", "l", "dotless-i", "d", "dotless-i", "r">>, <<"a", "t", "dotless-i", "l", "d", "dotless-i">>, <<"k", "u", "r", "u", "l", "d", "u">>,
    <<"a", "c-cedilla", "dotless-i", "l", "d", "dotless-i">>, <<"b", "a", "s-cedilla", "l", "a", "d", "dotless-i">>, <<"s", "a", "g-breve", "l", "a", "n", "m", "a", "k", "t", "a", "d", "dotless-i", "r">>,
    <<"b", "u", "l", "u", "n", "m", "a", "k", "t", "a", "d", "dotless-i", "r">>, <<"y", "e", "r", " ", "a", "l", "m", "a", "k", "t", "a", "d", "dotless-i", "r">>, <<"h", "i", "z", "m", "e", "t", " ", "v", "e", "r", "m", "e", "k", "t", "e", "d", "i", "r">>,
    <<"t", "dotless-i", "k", "l", "a", "y", "dotless-i", "n">>, <<"t", "dotless-i", "k", "l", "a", "y", "dotless-i", "n", "dotless-i", "z">>, <<"c", "l", "i", "c", "k">>,
    <<"b", "u", "r", "a", "y", "a">>, <<"b", "u", "r", "a", "d", "a">>, <<"d", "e", "t", "a", "y">>,
    <<"d", "e", "v", "a", "m">>, <<"g", "e", "r", "i">>, <<"i", "l", "e", "r", "i">>,
    <<"s", "e", "c-cedilla">>, <<"g", "o-diaeresis", "r", "u-diaeresis", "n", "t", "u-diaeresis", "l", "e">>, <<"s", "a", "t", "dotless-i", "s-cedilla", " ", "b", "o-diaeresis", "l", "g", "e">>,
    <<"m", "u-diaeresis", "d", "u-diaeresis", "r", "l", "u-diaeresis", "k">>, <<"y", "e", "t", "k", "i", "l", "i">>, <<"b", "a", "y", "i">>,
    <<"t", "e", "m", "s", "i", "l", "c", "i">>, <<"d", "i", "s", "t", "r", "i", "b", "u-diaeresis", "t", "o-diaeresis", "r">>, <<"d", "e", "a", "l", "e", "r">>,
    <<"s-cedilla", "u", "b", "e", " ", "l", "i", "s", "t", "e", "s", "i">>, <<"l", "u-diaeresis", "t", "f", "e", "n">>, <<"p", "l", "e", "a", "s", "e">>,
    <<"i", "c-cedilla", "i", "n">>, <<"h", "a", "k", "k", "dotless-i", "n", "d", "a">>, <<"a", "b", "o", "u", "t">>,
    <<"c", "o", "p", "y", "r", "i", "g", "h", "t">>, <<"t", "u-diaeresis", "m", " ", "h", "a", "k", "l", "a", "r", "dotless-i">>, <<"a", "l", "l", " ", "r", "i", "g", "h", "t", "s">>,
    <<"r", "e", "s", "e", "r", "v", "e", "d">>, <<"@">>, <<"h", "t", "t", "p">>,
    <<"w", "w", "w", ".">>, <<".", "c", "o", "m">>, <<".", "t", "r">>,
    <<".", "n", "e", "t">>, <<".", "o", "r", "g">>, <<"c", "o", "o", "k", "i", "e">>,
    <<"c-cedilla", "e", "r", "e", "z">>, <<"g", "i", "z", "l", "i", "l", "i", "k">>, <<"k", "v", "k", "k">>,
    <<"a", "y", "d", "dotless-i", "n", "l", "a", "t", "m", "a">>, <<"s", "o-diaeresis", "z", "l", "e", "s-cedilla", "m", "e">>, <<"k", "o", "s-cedilla", "u", "l">>,
    <<"s-cedilla", "a", "r", "t">>, <<"p", "o", "l", "i", "t", "i", "k", "a">>>>

\* \b(?:mah\.?|mahallesi)\b, \b(?:sok\.?|sokak|sokağı)\b,
\* \b(?:cad\.?|caddesi|cadde)\b, \b(?:bulvar|blv\.?)\b
mandatory_components ==
  <<<<WordBoundary, Lit(<<<<"m", "a", "h", ".">>, <<"m", "a", "h">>, <<"m", "a", "h", "a", "l", "l", "e", "s", "i">>>>), WordBoundary>>,
    <<WordBoundary, Lit(<<<<"s", "o", "k", ".">>, <<"s", "o", "k">>, <<"s", "o", "k", "a", "k">>, <<"s", "o", "k", "a", "g-breve", "dotless-i">>>>), WordBoundary>>,
    <<WordBoundary, Lit(<<<<"c", "a", "d", ".">>, <<"c", "a", "d">>, <<"c", "a", "d", "d", "e", "s", "i">>, <<"c", "a", "d", "d", "e">>>>), WordBoundary>>,
    <<WordBoundary, Lit(<<<<"b", "u", "l", "v", "a", "r">>, <<"b", "l", "v", ".">>, <<"b", "l", "v">>>>), WordBoundary>>>>

\* \bno\.?\s*[:\s]*\d+
NumberPattern ==
  <<WordBoundary, Lit(<<<<"n", "o">>>>), Cls({"."}, 0, 1), Star(Whitespace),
    Star(Whitespace \cup {":"}), Cls(DigitChars, 1, -1)>>

\* \b\d{5}\b
PostalPattern == <<WordBoundary, Digits(5), WordBoundary>>

cities ==
  <<<<"i", "s", "t", "a", "n", "b", "u", "l">>, <<"a", "n", "k", "a", "r", "a">>, <<"i", "z", "m", "i", "r">>,
    <<"b", "u", "r", "s", "a">>, <<"a", "n", "t", "a", "l", "y", "a">>, <<"k", "o", "n", "y", "a">>,
    <<"a", "d", "a", "n", "a">>, <<"g", "a", "z", "i", "a", "n", "t", "e", "p">>, <<"k", "o", "c", "a", "e", "l", "i">>,
    <<"m", "e", "r", "s", "i", "n">>, <<"k", "a", "y", "s", "e", "r", "i">>, <<"e", "s", "k", "i", "s-cedilla", "e", "h", "i", "r">>,
    <<"d", "e", "n", "i", "z", "l", "i">>, <<"m", "a", "n", "i", "s", "a">>, <<"s", "a", "k", "a", "r", "y", "a">>,
    <<"s", "a", "m", "s", "u", "n">>, <<"t", "r", "a", "b", "z", "o", "n">>, <<"d", "i", "y", "a", "r", "b", "a", "k", "dotless-i", "r">>,
    <<"s-cedilla", "a", "n", "l", "dotless-i", "u", "r", "f", "a">>, <<"m", "a", "l", "a", "t", "y", "a">>, <<"e", "r", "z", "u", "r", "u", "m">>,
    <<"v", "a", "n">>, <<"b", "a", "t", "m", "a", "n">>, <<"e", "l", "a", "z", "dotless-i", "g-breve">>,
    <<"k", "a", "h", "r", "a", "m", "a", "n", "m", "a", "r", "a", "s-cedilla">>, <<"t", "u-diaeresis", "r", "k", "i", "y", "e">>>>

\* GenericScraper._is_valid_address(address)
is_valid_address(address) ==
  LET address_lower == Lower(address)
      has_street_component ==
        \E i \in 1..Len(mandatory_components) : Search(mandatory_components[i], address_lower)
      has_number == Search(NumberPattern, address_lower)
      has_postal == Search(PostalPattern, address_lower)
      has_city == ContainsAny(address_lower, cities)
  IN /\ address # <<>>
     /\ Len(address) >= 25 /\ Len(address) <= 250
     /\ ~ContainsAny(address_lower, invalid_patterns)
     /\ CountChar(address, ".") <= 3
     /\ has_street_component
     /\ (has_city \/ has_postal \/ has_number)

(***************************************************************************)
(* GenericScraper.extract_contact_info, strategy by strategy, and the loop *)
(* of _find_contact_info over the contact pages of a site.                 *)
(*                                                                         *)
(* A document is the sequence of its elements. An element has a kind: an   *)
(* "ld+json" script with its parsed data, an "a" with its href, a "footer" *)
(* (an element one of the footer selectors matches), a "contact" (an       *)
(* element one of the semantic selectors matches) or a "p" (any other      *)
(* text). The elements are siblings: none lies inside another, so the      *)
(* link searches inside a footer or a semantic element find nothing. What  *)
(* _find_emails_in_text and _find_address_in_text find in the text of an   *)
(* element is given with the element (emails, address), and so is the      *)
(* address that follows an address label in it (labeled_address); phones   *)
(* are searched in the text itself.                                        *)
(***************************************************************************)

CElem(kind, text, href, data, emails, address, labeled_address) ==
  [kind |-> kind, text |-> text, href |-> href, data |-> data, emails |-> emails,
   address |-> address, labeled_address |-> labeled_address]

NoData == [telephone |-> <<>>, email |-> <<>>, address |-> <<>>]

TextElem(kind, text) == CElem(kind, text, <<>>, NoData, <<>>, <<>>, <<>>)
LinkElem(href, text) == CElem("a", text, href, NoData, <<>>, <<>>, <<>>)
ScriptElem(data) == CElem("ld+json", <<>>, <<>>, data, <<>>, <<>>, <<>>)

EmailInfo == <<"i", "n", "f", "o", "@", "x", ".", "c", "o", "m">>
EmailSatis == <<"s", "a", "t", "i", "s", "@", "x", ".", "c", "o", "m">>
EmailTest == <<"t", "e", "s", "t", "@", "t", "e", "s", "t", ".", "c", "o", "m">>
EmailNumeric == <<"1", "2", "3", "@", "4", "5", "6", ".", "7", "8", "9">>
EmailImage == <<"l", "o", "g", "o", "@", "2", "x", ".", "p", "n", "g">>
AddressBagdat == <<"B", "a", "g", "d", "a", "t", " ", "C", "a", "d", ".", " ", "N", "o", ":", "1", "2", " ", "K", "a", "d", "i", "k", "o", "y", " ", "I", "s", "t", "a", "n", "b", "u", "l">>
AddressOsb == <<"O", "S", "B", " ", "3", ".", " ", "C", "a", "d", "d", "e", " ", "N", "o", ":", "7", " ", "N", "i", "l", "u", "f", "e", "r", " ", "B", "u", "r", "s", "a">>
AddressShort == <<"K", "a", "d", "i", "k", "o", "y", " ", "I", "s", "t", "a", "n", "b", "u", "l">>
AddressNoStreet == <<"K", "o", "z", "y", "a", "t", "a", "g", "i", " ", "K", "a", "d", "i", "k", "o", "y", " ", "3", "4", "7", "4", "2", " ", "I", "s", "t", "a", "n", "b", "u", "l">>
AddressPrivacy == <<"G", "i", "z", "l", "i", "l", "i", "k", " ", "C", "a", "d", ".", " ", "N", "o", ":", "1", "2", " ", "3", "4", "0", "0", "0", " ", "I", "s", "t", "a", "n", "b", "u", "l">>

LdFull ==
  ScriptElem([telephone |-> <<"+", "9", "0", " ", "2", "1", "2", " ", "5", "5", "5", " ", "0", "0", " ", "1", "1">>, email |-> EmailInfo,
              address |-> AddressBagdat])
LdSecond ==
  ScriptElem([telephone |-> <<"0", "2", "1", "6", " ", "5", "5", "5", " ", "0", "0", " ", "1", "3">>, email |-> EmailSatis,
              address |-> AddressOsb])
LdPoor ==
  ScriptElem([telephone |-> <<"5", "5", "5", " ", "0", "0", " ", "1", "1">>, email |-> EmailTest,
              address |-> AddressShort])
TelLink == LinkElem(<<"t", "e", "l", ":", "+", "9", "0", "2", "1", "2", "5", "5", "5", "0", "0", "1", "1">>, <<"B", "i", "z", "i", " ", "A", "r", "a", "y", "dotless-i", "n">>)
TelMobile == LinkElem(<<"t", "e", "l", ":", "+", "9", "0", "5", "3", "2", "1", "2", "3", "4", "5", "6", "7">>, <<"A", "r", "a">>)
Mailto == LinkElem(<<"m", "a", "i", "l", "t", "o", ":", "s", "a", "t", "i", "s", "@", "x", ".", "c", "o", "m", "?", "s", "u", "b", "j", "e", "c", "t", "=", "T", "e", "k", "l", "i", "f">>, <<"Y", "a", "z", "i", "n">>)
FooterFax == TextElem("footer", <<"F", "a", "x", ":", " ", "0", "2", "1", "2", " ", "5", "5", "5", " ", "0", "0", " ", "1", "2">>)
FaxLabel == TextElem("p", <<"F", "a", "x", ":">>)
FooterNumber == TextElem("footer", <<"0", "2", "1", "2", " ", "5", "5", "5", " ", "0", "0", " ", "1", "2">>)
ContactNumber == TextElem("contact", <<" ", "0", "2", "1", "2", " ", "5", "5", "5", " ", "0", "0", " ", "1", "2", " ">>)
ContactTel == TextElem("contact", <<"T", "e", "l", ":", " ", "0", "2", "1", "6", " ", "5", "5", "5", " ", "0", "0", " ", "1", "3">>)
PlainTelFax == TextElem("p", <<"T", "e", "l", ":", " ", "0", "2", "1", "2", " ", "5", "5", "5", " ", "0", "0", " ", "1", "1", " ", "F", "a", "x", ":", " ", "0", "2", "1", "2", " ", "5", "5", "5", " ", "0", "0", " ", "1", "2">>)
PlainFaks == TextElem("p", <<"F", "A", "K", "S", " ", "0", " ", "(", "2", "1", "2", ")", " ", "5", "5", "5", " ", "0", "0", " ", "1", "2">>)
PlainArea == TextElem("p", <<"S", "a", "n", "t", "r", "a", "l", ":", " ", "5", "1", "0", ",", " ", "2", "5", " ", "m", "2", " ", "d", "e", "p", "o">>)
ContactAddr ==
  CElem("contact", <<"A", "d", "r", "e", "s", ":", " ", "B", "a", "g", "d", "a", "t", " ", "C", "a", "d", ".", " ", "N", "o", ":", "1", "2", " ", "K", "a", "d", "i", "k", "o", "y", " ", "I", "s", "t", "a", "n", "b", "u", "l">>,
        <<>>, NoData, <<>>,
        <<"A", "d", "r", "e", "s", ":", " ", "B", "a", "g", "d", "a", "t", " ", "C", "a", "d", ".", " ", "N", "o", ":", "1", "2", " ", "K", "a", "d", "i", "k", "o", "y", " ", "I", "s", "t", "a", "n", "b", "u", "l">>,
        <<"B", "a", "g", "d", "a", "t", " ", "C", "a", "d", ".", " ", "N", "o", ":", "1", "2", " ", "K", "a", "d", "i", "k", "o", "y", " ", "I", "s", "t", "a", "n", "b", "u", "l">>)
ContactAddrOsb ==
  CElem("contact", <<"F", "a", "b", "r", "i", "k", "a", ":", " ", "O", "S", "B", " ", "3", ".", " ", "C", "a", "d", "d", "e", " ", "N", "o", ":", "7", " ", "N", "i", "l", "u", "f", "e", "r", " ", "B", "u", "r", "s", "a">>,
        <<>>, NoData, <<>>,
        <<>>,
        <<"O", "S", "B", " ", "3", ".", " ", "C", "a", "d", "d", "e", " ", "N", "o", ":", "7", " ", "N", "i", "l", "u", "f", "e", "r", " ", "B", "u", "r", "s", "a">>)
PlainAddrOsb ==
  CElem("p", <<"F", "a", "b", "r", "i", "k", "a", ":", " ", "O", "S", "B", " ", "3", ".", " ", "C", "a", "d", "d", "e", " ", "N", "o", ":", "7", " ", "N", "i", "l", "u", "f", "e", "r", " ", "B", "u", "r", "s", "a">>,
        <<>>, NoData, <<>>,
        <<>>,
        <<"O", "S", "B", " ", "3", ".", " ", "C", "a", "d", "d", "e", " ", "N", "o", ":", "7", " ", "N", "i", "l", "u", "f", "e", "r", " ", "B", "u", "r", "s", "a">>)
FooterEmail ==
  CElem("footer", <<"E", "-", "p", "o", "s", "t", "a", ":", " ", "i", "n", "f", "o", "@", "x", ".", "c", "o", "m">>,
        <<>>, NoData, <<<<"i", "n", "f", "o", "@", "x", ".", "c", "o", "m">>>>,
        <<>>,
        <<>>)
LdPremium ==
  ScriptElem([telephone |-> <<"0", "8", "0", "0", " ", "5", "5", "5", " ", "0", "0", " ", "1", "1">>, email |-> EmailNumeric,
              address |-> AddressNoStreet])
LdImage ==
  ScriptElem([telephone |-> <<>>, email |-> EmailImage,
              address |-> AddressPrivacy])
TelPremium == LinkElem(<<"t", "e", "l", ":", "0", "9", "0", "0", "5", "5", "5", "0", "0", "1", "1">>, <<"D", "a", "n", "i", "s", "m", "a", " ", "H", "a", "t", "t", "i">>)
TelRepeated == LinkElem(<<"t", "e", "l", ":", "0", "1", "1", "1", "1", "5", "5", "5", "0", "0", "1">>, <<"A", "r", "a">>)
FooterPremium == TextElem("footer", <<"D", "a", "n", "i", "s", "m", "a", ":", " ", "0", "9", "0", "0", " ", "5", "5", "5", " ", "0", "0", " ", "1", "1">>)
PlainRepeated == TextElem("p", <<"S", "a", "n", "t", "r", "a", "l", " ", "0", "1", "1", "1", " ", "1", "5", "5", " ", "5", "0", " ", "0", "1">>)
MailtoTest == LinkElem(<<"m", "a", "i", "l", "t", "o", ":", "t", "e", "s", "t", "@", "t", "e", "s", "t", ".", "c", "o", "m">>, <<"Y", "a", "z", "i", "n">>)
MailtoShort == LinkElem(<<"m", "a", "i", "l", "t", "o", ":", "a", "@", "b", ".", "c">>, <<"Y", "a", "z", "i", "n">>)
PlainImage ==
  CElem("p", <<"E", "-", "p", "o", "s", "t", "a", ":", " ", "p", "h", "o", "t", "o", "@", "s", "i", "t", "e", ".", "c", "o", "m", "/", "i", "m", "g", ".", "p", "n", "g">>,
        <<>>, NoData, <<<<"p", "h", "o", "t", "o", "@", "s", "i", "t", "e", ".", "c", "o", "m">>>>,
        <<>>,
        <<>>)
ContactPrivacy == TextElem("contact", <<"A", "d", "r", "e", "s", ":", " ", "G", "i", "z", "l", "i", "l", "i", "k", " ", "C", "a", "d", ".", " ", "N", "o", ":", "1", "2", " ", "3", "4", "0", "0", "0", " ", "I", "s", "t", "a", "n", "b", "u", "l">>)
ContactMah ==
  CElem("contact", <<"A", "d", "r", "e", "s", ":", " ", "A", "t", "a", "t", "u", "r", "k", " ", "M", "a", "h", ".", " ", "L", "a", "l", "e", " ", "S", "o", "k", ".", " ", "N", "o", ":", "5", " ", "I", "z", "m", "i", "r">>,
        <<>>, NoData, <<>>,
        <<"A", "t", "a", "t", "u", "r", "k", " ", "M", "a", "h", ".", " ", "L", "a", "l", "e", " ", "S", "o", "k", ".", " ", "N", "o", ":", "5", " ", "I", "z", "m", "i", "r">>,
        <<"A", "t", "a", "t", "u", "r", "k", " ", "M", "a", "h", ".", " ", "L", "a", "l", "e", " ", "S", "o", "k", ".", " ", "N", "o", ":", "5", " ", "I", "z", "m", "i", "r">>)

\* The documents
ContactDocuments ==
  {<<>>,
   <<TelLink, FooterFax>>,
   <<TelMobile, FaxLabel, FooterNumber>>,
   <<FaxLabel, ContactNumber>>,
   <<FooterFax>>,
   <<PlainFaks, FooterEmail>>,
   <<TelLink, PlainTelFax>>,
   <<PlainTelFax, Mailto>>,
   <<LdFull, LdSecond>>,
   <<LdPoor, LdSecond, ContactAddr>>,
   <<LdPoor, ContactAddr, ContactAddrOsb>>,
   <<ContactTel, PlainAddrOsb>>,
   <<TelLink, PlainArea>>,
   <<Mailto, ContactTel, FooterEmail>>,
   <<TelPremium>>,
   <<FooterPremium, MailtoTest>>,
   <<LdPremium, ContactMah>>,
   <<LdImage, TelRepeated, PlainRepeated>>,
   <<MailtoShort, PlainImage>>,
   <<ContactPrivacy, MailtoTest, TelLink>>}

\* Most documents of a site: its main page and its contact pages
MaxDocuments == 2

ContactSites ==
  UNION {[1..n -> ContactDocuments] : n \in 1..MaxDocuments}

RECURSIVE JoinWith(_, _)
JoinWith(texts, separator) ==
  IF texts = <<>> THEN <<>>
  ELSE IF Len(texts) = 1 THEN texts[1]
  ELSE texts[1] \o separator \o JoinWith(Tail(texts), separator)

RECURSIVE TextsOf(_)
TextsOf(soup) ==
  IF soup = <<>> THEN <<>>
  ELSE (IF Head(soup).kind = "ld+json" THEN <<>> ELSE <<Head(soup).text>>) \o TextsOf(Tail(soup))

\* soup.get_text(separator): the text nodes joined; the content of a script
\* is not among them
get_text(soup, separator) == JoinWith(TextsOf(soup), separator)

OfKind(soup, kind) ==
  LET Is(e) == e.kind = kind
  IN SelectSeq(soup, Is)

\* link['href'].replace('mailto:', '').split('?')[0].strip()
mailto_email(href) == Strip(BeforeQuery(Remove(href, <<"m", "a", "i", "l", "t", "o", ":">>)))

\* link['href'].replace('tel:', '').strip()
tel_phone(href) == Strip(Remove(href, <<"t", "e", "l", ":">>))

\* list.extend(more)
RECURSIVE AppendNew(_, _)
AppendNew(list, more) ==
  IF more = <<>> THEN list
  ELSE AppendNew(IF InSeq(Head(more), list) THEN list ELSE Append(list, Head(more)), Tail(more))

\* The contact dict extract_contact_info starts with
NewContact ==
  [phone |-> <<>>, email |-> <<>>, address |-> <<>>, phones |-> <<>>, emails |-> <<>>]

\* not contact['phone'] or not contact['email']
Incomplete(c) == c.phone = <<>> \/ c.email = <<>>

\* _extract_from_schema_org with assignments that do not look at the field.
schema_org_script_unguarded(c, data) ==
  [c EXCEPT !.phone = IF data.telephone # <<>> /\ format_phone(data.telephone) # <<>>
                        THEN format_phone(data.telephone) ELSE @,
            !.email = IF data.email # <<>> /\ is_valid_email(data.email) THEN data.email ELSE @,
            !.address = IF Len(data.address) > 20 THEN data.address ELSE @]

\* _extract_from_schema_org, the body of the loop for one script whose data
\* is an object with a text for its address
schema_org_script(c, data) ==
  [c EXCEPT !.phone = IF c.phone = <<>> /\ data.telephone # <<>>
                           /\ format_phone(data.telephone) # <<>>
                        THEN format_phone(data.telephone) ELSE @,
            !.email = IF c.email = <<>> /\ data.email # <<>> /\ is_valid_email(data.email)
                        THEN data.email ELSE @,
            !.address = IF c.address = <<>> /\ Len(data.address) > 20 THEN data.address ELSE @]

\* _extract_from_links: the mailto: links, then the tel: links
RECURSIVE links_emails(_, _)
links_emails(emails, links) ==
  IF links = <<>> THEN emails
  ELSE LET email == mailto_email(Head(links).href)
       IN links_emails(IF StartsWith(Lower(Head(links).href), <<"m", "a", "i", "l", "t", "o", ":">>)
                            /\ is_valid_email(email) /\ ~InSeq(email, emails)
                         THEN Append(emails, email) ELSE emails,
                       Tail(links))

RECURSIVE links_phones(_, _)
links_phones(phones, links) ==
  IF links = <<>> THEN phones
  ELSE LET formatted == format_phone(tel_phone(Head(links).href))
       IN links_phones(IF StartsWith(Lower(Head(links).href), <<"t", "e", "l", ":">>)
                            /\ formatted # <<>> /\ ~InSeq(formatted, phones)
                         THEN Append(phones, formatted) ELSE phones,
                       Tail(links))

extract_from_links(soup, c) ==
  [c EXCEPT !.emails = links_emails(@, OfKind(soup, "a")),
            !.phones = links_phones(@, OfKind(soup, "a"))]

\* _extract_from_footer: the loop over the footers
RECURSIVE extract_from_footer(_, _)
extract_from_footer(footers, c) ==
  IF footers = <<>> THEN c
  ELSE extract_from_footer(
         Tail(footers),
         [c EXCEPT !.phones = IF c.phone = <<>> THEN @ \o find_phones_in_text(Head(footers).text)
                              ELSE @,
                   !.emails = IF c.email = <<>> THEN @ \o Head(footers).emails ELSE @])

\* _extract_from_semantic_elements, the body of the loop for one element
semantic_element(c, element) ==
  [c EXCEPT !.phones = IF c.phone = <<>> THEN @ \o find_phones_in_text(Strip(element.text))
                       ELSE @,
            !.emails = IF c.email = <<>> THEN @ \o element.emails ELSE @,
            !.address = IF c.address = <<>> /\ element.address # <<>> THEN element.address
                        ELSE @]

\* The emails and the labeled addresses of a document, in the order of its text
RECURSIVE EmailsOf(_)
EmailsOf(soup) == IF soup = <<>> THEN <<>> ELSE Head(soup).emails \o EmailsOf(Tail(soup))

RECURSIVE LabeledAddressesOf(_)
LabeledAddressesOf(soup) ==
  IF soup = <<>> THEN <<>>
  ELSE (IF Head(soup).labeled_address # <<>> THEN <<Head(soup).labeled_address>> ELSE <<>>)
         \o LabeledAddressesOf(Tail(soup))

\* _extract_from_labeled_patterns when its search for phones has not raised:
\* the emails and the address
extract_from_labeled_patterns(soup, c) ==
  LET valid == LET Ok(a) == is_valid_address(a) IN SelectSeq(LabeledAddressesOf(soup), Ok)
  IN [c EXCEPT !.emails = AppendNew(@, EmailsOf(soup)),
               !.address = IF c.address = <<>> /\ valid # <<>> THEN valid[1] ELSE @]

\* _extract_from_page_text
extract_from_page_text(soup, c) ==
  [c EXCEPT !.phones = IF c.phone = <<>> THEN @ \o find_phones_in_text(get_text(soup, <<" ">>))
                       ELSE @,
            !.emails = IF c.email = <<>> THEN @ \o AppendNew(<<>>, EmailsOf(soup)) ELSE @]

\* The first element of the list that satisfies Test, 0 for none
FirstWith(list, Test(_)) ==
  IF \E i \in 1..Len(list) : Test(list[i])
    THEN Min({i \in 1..Len(list) : Test(list[i])})
  ELSE 0

\* _select_best_phone without its first loop.
select_best_phone_landline_first(phones) ==
  LET Landline(phone) ==
        StartsWith(OnlyDigits(phone), <<"9", "0", "2">>) \/ StartsWith(OnlyDigits(phone), <<"0", "2">>)
  IN IF phones = <<>> THEN <<>>
     ELSE IF FirstWith(phones, Landline) # 0 THEN phones[FirstWith(phones, Landline)]
     ELSE phones[1]

\* _select_best_phone
select_best_phone(phones) ==
  LET Istanbul(phone) ==
        \/ StartsWith(OnlyDigits(phone), <<"9", "0", "2", "1", "2">>) \/ StartsWith(OnlyDigits(phone), <<"9", "0", "2", "1", "6">>)
        \/ StartsWith(OnlyDigits(phone), <<"0", "2", "1", "2">>) \/ StartsWith(OnlyDigits(phone), <<"0", "2", "1", "6">>)
      Landline(phone) ==
        StartsWith(OnlyDigits(phone), <<"9", "0", "2">>) \/ StartsWith(OnlyDigits(phone), <<"0", "2">>)
  IN IF phones = <<>> THEN <<>>
     ELSE IF FirstWith(phones, Istanbul) # 0 THEN phones[FirstWith(phones, Istanbul)]
     ELSE IF FirstWith(phones, Landline) # 0 THEN phones[FirstWith(phones, Landline)]
     ELSE phones[1]

priority_prefixes == <<<<"i", "n", "f", "o", "@">>, <<"c", "o", "n", "t", "a", "c", "t", "@">>, <<"i", "l", "e", "t", "i", "s", "i", "m", "@">>, <<"s", "a", "l", "e", "s", "@">>, <<"s", "a", "t", "i", "s", "@">>>>

\* _select_best_email
select_best_email(emails) ==
  LET Hits == {<<p, i>> \in (1..Len(priority_prefixes)) \X (1..Len(emails)) :
                 StartsWith(Lower(emails[i]), priority_prefixes[p])}
      best == CHOOSE h \in Hits : \A g \in Hits : h[1] < g[1] \/ (h[1] = g[1] /\ h[2] <= g[2])
  IN IF emails = <<>> THEN <<>>
     ELSE IF Hits # {} THEN emails[best[2]]
     ELSE emails[1]

\* extract_contact_info, its end: the best of the lists for the fields that
\* are still empty, and the record without the lists
select_best(c) ==
  [phone |-> IF c.phones # <<>> /\ c.phone = <<>> THEN select_best_phone(c.phones) ELSE c.phone,
   email |-> IF c.emails # <<>> /\ c.email = <<>> THEN select_best_email(c.emails) ELSE c.email,
   address |-> c.address]

\* _find_contact_info: the fields still missing are taken from the page
fill_missing(contact_info, page_contact) ==
  [phone |-> IF contact_info.phone = <<>> /\ page_contact.phone # <<>> THEN page_contact.phone
             ELSE contact_info.phone,
   email |-> IF contact_info.email = <<>> /\ page_contact.email # <<>> THEN page_contact.email
             ELSE contact_info.email,
   address |-> IF contact_info.address = <<>> /\ page_contact.address # <<>>
                 THEN page_contact.address
               ELSE contact_info.address]

(***************************************************************************)
(* The specification of the contact search: input is the site, the main    *)
(* page first and then the contact pages that could be fetched; contact    *)
(* holds the record of _find_contact_info, the dict of the running         *)
(* extract_contact_info and the place in it.                               *)
(***************************************************************************)

ContactOff ==
  /\ companies = <<>> /\ cur = 0 /\ results = <<>> /\ tracker = <<>> /\ pc = "off"
  /\ scraper = <<>> /\ scrape = <<>> /\ crawl = <<>> /\ deep = <<>>
  /\ download = <<>> /\ faults = 0

contactOther ==
  <<input, pending_data, companies, cur, results, tracker, pc, scraper, scrape, crawl, deep,
    download, faults>>

InitContact ==
  /\ input \in ContactSites
  /\ op = "none" /\ arg = <<>> /\ ret = <<>>
  /\ pending_data = <<>>
  /\ ContactOff
  /\ contact = [contact_info |-> NoContact, page |-> NewContact, idx |-> 1,
                step |-> "schema_org", k |-> 1]

Soup == input[contact.idx]

\* _extract_from_schema_org: one script
SchemaOrgScript ==
  /\ contact.step = "schema_org"
  /\ contact.k <= Len(OfKind(Soup, "ld+json"))
  /\ contact' = [contact EXCEPT
                   !.page = schema_org_script(@, OfKind(Soup, "ld+json")[contact.k].data),
                   !.k = @ + 1]
  /\ op' = "schema_org" /\ arg' = OfKind(Soup, "ld+json")[contact.k]
  /\ UNCHANGED <<ret, contactOther>>

\* _extract_from_links and, for a record still incomplete, _extract_from_footer
ExtractFromLinksAndFooter ==
  /\ contact.step = "schema_org"
  /\ contact.k > Len(OfKind(Soup, "ld+json"))
  /\ LET c == extract_from_links(Soup, contact.page)
     IN contact' = [contact EXCEPT
                      !.page = IF Incomplete(c) THEN extract_from_footer(OfKind(Soup, "footer"), c)
                               ELSE c,
                      !.step = "semantic",
                      !.k = 1]
  /\ op' = "footer" /\ arg' = Soup
  /\ UNCHANGED <<ret, contactOther>>

\* _extract_from_semantic_elements, for a record still incomplete: one element
SemanticElement ==
  /\ contact.step = "semantic"
  /\ Incomplete(contact.page)
  /\ contact.k <= Len(OfKind(Soup, "contact"))
  /\ contact' = [contact EXCEPT
                   !.page = semantic_element(@, OfKind(Soup, "contact")[contact.k]),
                   !.k = @ + 1]
  /\ op' = "semantic" /\ arg' = OfKind(Soup, "contact")[contact.k]
  /\ UNCHANGED <<ret, contactOther>>

\* _extract_from_labeled_patterns and _extract_from_page_text, each for a
\* record still incomplete
ExtractFromText ==
  /\ contact.step = "semantic"
  /\ ~Incomplete(contact.page) \/ contact.k > Len(OfKind(Soup, "contact"))
  /\ ~(Incomplete(contact.page) /\ labeled_phones_raise(get_text(Soup, <<"newline">>)))
  /\ LET c == IF Incomplete(contact.page) THEN extract_from_labeled_patterns(Soup, contact.page)
              ELSE contact.page
     IN contact' = [contact EXCEPT
                      !.page = IF Incomplete(c) THEN extract_from_page_text(Soup, c) ELSE c,
                      !.step = "select"]
  /\ op' = "page_text" /\ arg' = Soup
  /\ UNCHANGED <<ret, contactOther>>

\* _extract_from_labeled_patterns raises TypeError, which neither
\* extract_contact_info nor _find_contact_info catches
LabeledPatternsRaise ==
  /\ contact.step = "semantic"
  /\ contact.k > Len(OfKind(Soup, "contact"))
  /\ Incomplete(contact.page)
  /\ labeled_phones_raise(get_text(Soup, <<"newline">>))
  /\ contact' = [contact EXCEPT !.step = "raised"]
  /\ op' = "TypeError" /\ arg' = Soup
  /\ UNCHANGED <<ret, contactOther>>

\* extract_contact_info returns
SelectBest ==
  /\ contact.step = "select"
  /\ contact' = [contact EXCEPT
                   !.page = [@ EXCEPT !.phone = select_best(contact.page).phone,
                                      !.email = select_best(contact.page).email],
                   !.step = "fill"]
  /\ op' = "extract_contact_info" /\ arg' = Soup
  /\ ret' = select_best(contact.page)
  /\ UNCHANGED contactOther

\* _find_contact_info takes what the page gave: the whole record of the main
\* page, the missing fields of a contact page; it goes on to the next page
\* while the phone or the email is missing
TakeFromPage ==
  /\ contact.step = "fill"
  /\ LET info == IF contact.idx = 1 THEN ret ELSE fill_missing(contact.contact_info, ret)
         more == contact.idx < Len(input) /\ (info.phone = <<>> \/ info.email = <<>>)
     IN contact' = [contact_info |-> info,
                    page |-> IF more THEN NewContact ELSE contact.page,
                    idx |-> IF more THEN contact.idx + 1 ELSE contact.idx,
                    step |-> IF more THEN "schema_org" ELSE "done",
                    k |-> 1]
  /\ op' = "fill" /\ arg' = ret
  /\ UNCHANGED <<ret, contactOther>>

NextContact ==
  \/ SchemaOrgScript
  \/ ExtractFromLinksAndFooter
  \/ SemanticElement
  \/ ExtractFromText
  \/ LabeledPatternsRaise
  \/ SelectBest
  \/ TakeFromPage

SpecContact == InitContact /\ [][NextContact]_vars

(***************************************************************************)
(* Claims about the contact extraction                                     *)
(***************************************************************************)

ContactFields == {"phone", "email", "address"}

\* C12: once the phone, the email or the address of the contact record holds
\* a value, no later strategy on the same page and no later contact page
\* changes it: neither the record of _find_contact_info nor, while one
\* extract_contact_info runs, its dict.
C12_AcceptedFieldNeverOverwritten ==
  [][\A f \in ContactFields :
       /\ contact.contact_info[f] # <<>> => contact'.contact_info[f] = contact.contact_info[f]
       /\ (contact'.idx = contact.idx /\ contact.page[f] # <<>>)
            => contact'.page[f] = contact.page[f]]_vars

\* A contact page offered another phone and another address than the ones the
\* record holds from the main page, and brought the email that was missing.
C12_Witness ==
  /\ op = "fill" /\ contact.idx = 2
  /\ ret.phone # <<>> /\ contact.contact_info.phone # <<>>
  /\ contact.contact_info.phone # ret.phone
  /\ ret.address # <<>> /\ contact.contact_info.address # <<>>
  /\ contact.contact_info.address # ret.address
  /\ contact.contact_info.email = ret.email /\ ret.email # <<>>
  /\ input[1] # input[2]

\* The places where the general phone pattern finds a number, from pos on
RECURSIVE FindStarts(_, _, _)
FindStarts(at, text, pos) ==
  LET starts == {p \in pos..(Len(text) + 1) : at[p] # NoMatch}
      p == Min(starts)
  IN IF starts = {} THEN {}
     ELSE {p} \cup FindStarts(at, text, IF at[p] > p THEN at[p] ELSE p + 1)

\* The number at p follows a fax label directly: "Fax: ", "FAKS "
DirectlyAfterFaxLabel(text, p) ==
  LET before == Lower(RStrip(SubSeq(text, 1, p - 1)))
  IN \E i \in 1..Len(FAX_LABELS) :
       EndsWith(before, FAX_LABELS[i]) \/ EndsWith(before, FAX_LABELS[i] \o <<":">>)

\* The numbers of the text, each in its canonical form
NumbersOf(text) ==
  LET at == MatchesAt(PHONE_PATTERN, text)
  IN {format_phone(SubSeq(text, p, at[p] - 1)) : p \in FindStarts(at, text, 1)}

\* The text has numbers, and each of them only directly after a fax label
OnlyFaxNumbers(text) ==
  LET at == MatchesAt(PHONE_PATTERN, text)
  IN /\ FindStarts(at, text, 1) # {}
     /\ \A p \in FindStarts(at, text, 1) : DirectlyAfterFaxLabel(text, p)

\* C13: contact extraction never returns a fax number: for a page without
\* structured data whose text has phone numbers only directly after a fax
\* label, the phone extract_contact_info returns is none of them, and it is
\* the canonical form of the number of a tel: link when the page has one.
C13_FaxNumberNeverReturned ==
  (op = "extract_contact_info" /\ OfKind(arg, "ld+json") = <<>>
     /\ OnlyFaxNumbers(get_text(arg, <<" ">>)))
    => /\ ret.phone \notin NumbersOf(get_text(arg, <<" ">>))
       /\ links_phones(<<>>, OfKind(arg, "a")) # <<>>
            => InSeq(ret.phone, links_phones(<<>>, OfKind(arg, "a")))

\* The page of the end-to-end scenario: the tel: link and the footer with the
\* fax line; the phone of the link is returned.
C13_Scenario ==
  (op = "extract_contact_info" /\ arg = <<TelLink, FooterFax>>)
    => ret.phone = format_phone(tel_phone(TelLink.href))

(***************************************************************************)
(* Function-level specification of the two filters of catalog links: the   *)
(* downloader's classifier, as extract_catalog_links applies it to the one *)
(* anchor of a page, and is_valid_catalog of the deep scan.                 *)
(***************************************************************************)

\* "/files/0123456789abcdef0123.pdf"
HrefHex ==
  <<"/","f","i","l","e","s","/","0","1","2","3","4","5","6","7","8","9","a","b","c","d","e","f","0","1","2","3",".","p","d","f">>
\* "/files/0123456789abcdef012.pdf"
HrefHexShort ==
  <<"/","f","i","l","e","s","/","0","1","2","3","4","5","6","7","8","9","a","b","c","d","e","f","0","1","2",".","p","d","f">>
\* "/katalog/0123456789ABCDEF0123.pdf"
HrefHexCatalog ==
  <<"/","k","a","t","a","l","o","g","/","0","1","2","3","4","5","6","7","8","9","A","B","C","D","E","F","0","1","2","3",".","p","d","f">>
\* "/docs/G\u0130ZL\u0130L\u0130K.pdf"
HrefUpperDotted ==
  <<"/","d","o","c","s","/","G","I-dot","Z","L","I-dot","L","I-dot","K",".","p","d","f">>
\* "/docs/KVKK.pdf"
HrefUpperAscii ==
  <<"/","d","o","c","s","/","K","V","K","K",".","p","d","f">>
\* "/docs/s%C3%B6zle%C5%9Fme.pdf"
HrefEncoded ==
  <<"/","d","o","c","s","/","s","%","C","3","%","B","6","z","l","e","%","C","5","%","9","F","m","e",".","p","d","f">>
\* "/docs/s\xf6zle\u015fme.pdf"
HrefDiacritic ==
  <<"/","d","o","c","s","/","s","o-diaeresis","z","l","e","s-cedilla","m","e",".","p","d","f">>
\* "/docs/dosya.pdf"
HrefFile ==
  <<"/","d","o","c","s","/","d","o","s","y","a",".","p","d","f">>
\* "Yat\u0131r\u0131mc\u0131 \u0130li\u015fkileri"
TextInvestor ==
  <<"Y","a","t","dotless-i","r","dotless-i","m","c","dotless-i"," ","I-dot","l","i","s-cedilla","k","i","l","e","r","i">>
\* "YATIRIMCI"
TextInvestorUpper ==
  <<"Y","A","T","I","R","I","M","C","I">>

LinkHrefs ==
  {HrefHex, HrefHexShort, HrefHexCatalog, HrefUpperDotted, HrefUpperAscii, HrefEncoded, HrefDiacritic, HrefFile, HrefCatalog, HrefPrivacy}

LinkTexts == {<<>>, TextInvestor, TextInvestorUpper, TextCatalog, TextDownload}

InitClassify ==
  /\ input \in {[url |-> resolve_url(BaseUrl, h), href |-> h, text |-> t] :
                  h \in LinkHrefs, t \in LinkTexts}
  /\ op = "none"
  /\ arg = <<>>
  /\ ret = <<>>
  /\ pending_data = <<>>
  /\ ProgOff

\* downloader.should_download_url(url, link_text)
ShouldDownloadUrlOfLink ==
  /\ op = "none"
  /\ op' = "should_download_url"
  /\ arg' = input
  /\ ret' = should_download_url(input.url, input.text)
  /\ UNCHANGED <<input, pending_data, progVars>>

\* extract_catalog_links on the page <a href=href>text</a>
ExtractCatalogLinksOfLink ==
  /\ op = "none"
  /\ op' = "extract_catalog_links"
  /\ arg' = input
  /\ ret' = extract_catalog_links(<<Elem("a", input.href, <<>>, input.text)>>, BaseUrl)
  /\ UNCHANGED <<input, pending_data, progVars>>

\* DeepScanStrategy._extract_catalogs_from_soup on the same page
ExtractCatalogsFromSoupOfLink ==
  /\ op = "none"
  /\ op' = "extract_catalogs_from_soup"
  /\ arg' = input
  /\ ret' = extract_catalogs_from_soup(<<Elem("a", input.href, <<>>, input.text)>>, BaseUrl)
  /\ UNCHANGED <<input, pending_data, progVars>>

NextClassify ==
  ShouldDownloadUrlOfLink \/ ExtractCatalogLinksOfLink \/ ExtractCatalogsFromSoupOfLink

SpecClassify == InitClassify /\ [][NextClassify]_vars

(***************************************************************************)
(* The classifier: opaque file names, spelling variants of the keywords    *)
(***************************************************************************)

\* The file name of the URL, without its extension, is 20 or more
\* hexadecimal characters.
HexNamed(url) == IsHexName(Lower(NameWithoutExt(Basename(UrlPath(url)))))

\* C16: a URL whose file name without its extension is 20 or more hexadecimal
\* characters is rejected by should_download_url and is not among the links
\* extract_catalog_links returns, whatever keywords the URL and link text hold.
C16_HexNameRejected ==
  /\ (op = "should_download_url" /\ HexNamed(arg.url)) => ~ret.ok
  /\ op = "extract_catalog_links" => \A i \in DOMAIN ret : ~HexNamed(ret[i])

\* The deep scan does exclude such a URL.
C16_DeepScanExcludesHexName ==
  op = "extract_catalogs_from_soup" => \A u \in ret : ~HexNamed(u)

\* Percent-decoded, Turkish letters mapped to ASCII, lowercased.
Normalized(s) == normalize_turkish(unquote(s))

\* C17: should_download_url gives the same accept/reject answer for a URL and
\* link text as for the same input percent-decoded, with the Turkish letters
\* mapped to ASCII and lowercased.
C17_SameAnswerNormalized ==
  op = "should_download_url"
    => ret.ok = should_download_url(Normalized(arg.url), Normalized(arg.text)).ok

\* A negative keyword written in upper-case ASCII is rejected.
C17_UpperAsciiRejected ==
  (op = "should_download_url" /\ arg.href = HrefUpperAscii) => ~ret.ok

(***************************************************************************)
(* scrapers/base_scraper.py: fetch_page and fetch_page_with_js, one call    *)
(* followed attempt by attempt. scraper holds the fields of the scraper    *)
(* the call reads and the requests its session has sent; arg is the frame   *)
(* of the innermost fetch_page.                                            *)
(***************************************************************************)

\* Largest max_retries a scraper is built with (settings.MAX_RETRIES is 1).
MaxRetries == 2

\* What session.get, raise_for_status and the parser can raise, each class
\* with the classes it derives from (itself included).
Ancestors(class) ==
  CASE class = "ReadTimeout" -> {"ReadTimeout", "Timeout", "RequestException", "Exception"}
    [] class = "ConnectTimeout" ->
         {"ConnectTimeout", "ConnectionError", "Timeout", "RequestException", "Exception"}
    [] class = "ConnectionError" -> {"ConnectionError", "RequestException", "Exception"}
    [] class = "HTTPError" -> {"HTTPError", "RequestException", "Exception"}
    [] class = "TooManyRedirects" -> {"TooManyRedirects", "RequestException", "Exception"}
    [] class = "FeatureNotFound" -> {"FeatureNotFound", "ValueError", "Exception"}
    [] OTHER -> {class}

Response(raises, status_code) == [raises |-> raises, status_code |-> status_code]

\* The outcomes of one attempt: the page received and parsed, or an exception
\* (an HTTPError carries the status of the response).
HttpOutcomes ==
  { Response("none", 200), Response("ReadTimeout", 0), Response("ConnectTimeout", 0),
    Response("ConnectionError", 0), Response("HTTPError", 404), Response("HTTPError", 500),
    Response("HTTPError", 503), Response("TooManyRedirects", 0),
    Response("FeatureNotFound", 200) }

\* The except clauses of fetch_page, in the order they are written.
ExceptClauses == <<"Timeout", "HTTPError", "ConnectionError", "RequestException", "Exception">>

\* The clause that handles an exception of the class: the first one naming
\* one of its ancestors ("" when none does and the exception leaves the call).
HandlerOf(class) ==
  LET matching == {i \in DOMAIN ExceptClauses : ExceptClauses[i] \in Ancestors(class)}
  IN IF matching = {} THEN "" ELSE ExceptClauses[Min(matching)]

\* fetch_page after one attempt with the guards of the retries inclusive.
fetch_page_retry_inclusive(outcome, retry_count, max_retries) ==
  LET handler == HandlerOf(outcome.raises)
  IN IF outcome.raises = "none" THEN "soup"
     ELSE IF handler = "" THEN "raise"
     ELSE IF handler \in {"Timeout", "ConnectionError"}
       THEN IF retry_count <= max_retries THEN "retry" ELSE "None"
     ELSE IF handler = "HTTPError"
       THEN IF retry_count <= max_retries /\ outcome.status_code >= 500
              THEN "retry" ELSE "None"
     ELSE "None"

\* fetch_page after one attempt: return the parsed page, call itself with
\* retry_count + 1, return None, or let the exception out.
fetch_page(outcome, retry_count, max_retries) ==
  LET handler == HandlerOf(outcome.raises)
  IN IF outcome.raises = "none" THEN "soup"
     ELSE IF handler = "" THEN "raise"
     ELSE IF handler \in {"Timeout", "ConnectionError"}
       THEN IF retry_count < max_retries THEN "retry" ELSE "None"
     ELSE IF handler = "HTTPError"
       THEN IF retry_count < max_retries /\ outcome.status_code >= 500
              THEN "retry" ELSE "None"
     ELSE "None"

\* _init_selenium_driver gives a driver, or None (USE_SELENIUM off, Chrome
\* not starting); driver.get and page_source give the rendered page or raise.
DriverInits == {"driver", "None"}

SeleniumOutcomes == {"page_source", "TimeoutException", "WebDriverException", "Exception"}

FetchOff ==
  /\ companies = <<>> /\ cur = 0 /\ results = <<>> /\ tracker = <<>> /\ pc = "off"
  /\ scrape = <<>> /\ crawl = <<>> /\ deep = <<>> /\ contact = <<>>
  /\ download = <<>> /\ faults = 0

fetchOther ==
  <<input, pending_data, companies, cur, results, tracker, pc, scrape, crawl, deep, contact,
    download, faults>>

InitFetch ==
  /\ input \in {SiteX, SiteX \o PathKatalog}
  /\ op = "none" /\ arg = <<>> /\ ret = <<>>
  /\ pending_data = <<>>
  /\ FetchOff
  /\ scraper \in {[max_retries |-> n, _selenium_driver |-> d, session |-> <<>>] :
                    n \in 0..MaxRetries, d \in DriverInits}

\* scraper.fetch_page(url)
FetchPage ==
  /\ op = "none"
  /\ op' = "fetch_page"
  /\ arg' = [url |-> input, retry_count |-> 0]
  /\ UNCHANGED <<ret, scraper, fetchOther>>

\* scraper.fetch_page_with_js(url): the driver is created when there is none;
\* without a driver, and when the driver raises, the call goes on in
\* fetch_page(url).
FetchPageWithJs ==
  /\ op = "none"
  /\ \E init \in DriverInits, outcome \in SeleniumOutcomes :
       LET driver == IF scraper._selenium_driver = "None" THEN init
                     ELSE scraper._selenium_driver
       IN /\ scraper' = [scraper EXCEPT !._selenium_driver = driver]
          /\ IF driver # "None" /\ outcome = "page_source"
               THEN /\ op' = "returned"
                    /\ arg' = [url |-> input, retry_count |-> 0]
                    /\ ret' = "soup"
               ELSE /\ op' = "fetch_page"
                    /\ arg' = [url |-> input, retry_count |-> 0]
                    /\ ret' = ret
  /\ UNCHANGED fetchOther

\* One pass through the try block of fetch_page: the request is sent, and the
\* call returns, raises, or calls itself again.
Attempt ==
  /\ op = "fetch_page"
  /\ \E outcome \in HttpOutcomes :
       LET next == fetch_page(outcome, arg.retry_count, scraper.max_retries)
       IN /\ scraper' = [scraper EXCEPT !.session = Append(@, outcome)]
          /\ CASE next = "retry" ->
                    /\ arg' = [arg EXCEPT !.retry_count = @ + 1]
                    /\ UNCHANGED <<op, ret>>
               [] next = "raise" ->
                    /\ op' = "raised" /\ ret' = outcome.raises /\ arg' = arg
               [] OTHER ->
                    /\ op' = "returned" /\ ret' = next /\ arg' = arg
  /\ UNCHANGED fetchOther

NextFetch == FetchPage \/ FetchPageWithJs \/ Attempt

SpecFetch == InitFetch /\ [][NextFetch]_vars

(***************************************************************************)
(* The static fetch                                                        *)
(***************************************************************************)

Retryable(outcome) ==
  \/ outcome.raises \in {"ReadTimeout", "ConnectTimeout", "ConnectionError"}
  \/ outcome.raises = "HTTPError" /\ outcome.status_code >= 500

\* C18: one call of fetch_page sends at most max_retries + 1 requests, sends
\* another one only after a timeout, a connection error or a status of 500 or
\* more, returns the parsed page or None and never raises; when the last of
\* the max_retries + 1 requests fails it returns None.
C18_FetchFailsClosed ==
  LET session == scraper.session
  IN /\ Len(session) <= scraper.max_retries + 1
     /\ \A i \in 1..(Len(session) - 1) : Retryable(session[i])
     /\ op # "raised"
     /\ (op = "returned" /\ session # <<>>)
          => /\ ret \in {"soup", "None"}
             /\ ret = "soup" <=> session[Len(session)].raises = "none"
     /\ op = "fetch_page" => Len(session) = arg.retry_count

\* The three kinds of failure that are retried, one after the other, use up
\* the retries and the call returns None.
C18_Witness ==
  /\ op = "returned" /\ ret = "None"
  /\ scraper.max_retries = 2
  /\ Len(scraper.session) = 3
  /\ scraper.session[1].raises = "ReadTimeout"
  /\ scraper.session[2].raises = "ConnectionError"
  /\ scraper.session[3] = Response("HTTPError", 503)

(***************************************************************************)
(* The browser drivers over the life of the scraper: main's with block,    *)
(* the lazy creation of the drivers, GenericScraper.close. A driver is a   *)
(* number, 0 is None. scraper.created holds the drivers started so far,    *)
(* scraper.quit the drivers quit() was called on.                          *)
(***************************************************************************)

NoDriver == 0

\* self._strategy_manager = None
NoManager == [strategies |-> <<>>, none |-> TRUE]

\* DeepScanStrategy.__init__
NewDeepScanStrategy == [name |-> "deep_scan", _driver |-> NoDriver, session |-> "open"]

\* StrategyManager.__init__
NewManager == [strategies |-> <<NewDeepScanStrategy>>, none |-> FALSE]

\* GenericScraper.__init__
NewDriverScraper ==
  [_selenium_driver |-> NoDriver, _strategy_manager |-> NoManager, session |-> "open",
   created |-> {}, quit |-> {}, quit_raised |-> {}, closed_manager |-> NoManager]

\* webdriver.Chrome(options=...) when it starts: a driver not seen before
NewDriver(created) == Cardinality(created) + 1

\* strategy.close(): the session, then the driver when there is one
strategy_close(strategy) == [strategy EXCEPT !._driver = NoDriver, !.session = "closed"]

\* StrategyManager.close
manager_close(manager) ==
  [manager EXCEPT !.strategies = [i \in DOMAIN @ |-> strategy_close(@[i])]]

ManagerDrivers(manager) ==
  IF manager = NoManager THEN {}
  ELSE {manager.strategies[i]._driver : i \in DOMAIN manager.strategies} \ {NoDriver}

\* driver.quit() returns or raises; every call site catches what it raises.
QuitOutcomes == {"quit", "raises"}

\* BaseScraper.close: the session, then the driver when there is one
base_close(s, outcome) ==
  LET drivers == {s._selenium_driver} \ {NoDriver}
  IN [s EXCEPT !.session = "closed",
               !._selenium_driver = NoDriver,
               !.quit = @ \cup drivers,
               !.quit_raised = @ \cup (IF outcome = "raises" THEN drivers ELSE {})]

\* GenericScraper.close without the part for the strategy manager
close_base_only(s, outcome, strategy_outcome) == base_close(s, outcome)

\* GenericScraper.close: BaseScraper.close, then the strategy manager when
\* there is one
close(s, outcome, strategy_outcome) ==
  LET b == base_close(s, outcome)
      drivers == ManagerDrivers(b._strategy_manager)
  IN IF b._strategy_manager = NoManager THEN b
     ELSE [b EXCEPT !.quit = @ \cup drivers,
                    !.quit_raised =
                       @ \cup (IF strategy_outcome = "raises" THEN drivers ELSE {}),
                    !.closed_manager = manager_close(b._strategy_manager),
                    !._strategy_manager = NoManager]

DriversOff ==
  /\ companies = <<>> /\ results = <<>> /\ tracker = <<>>
  /\ scrape = <<>> /\ crawl = <<>> /\ deep = <<>> /\ contact = <<>>
  /\ download = <<>> /\ faults = 0

driversOther ==
  <<input, pending_data, companies, results, tracker, scrape, crawl, deep, contact,
    download, faults>>

\* main: with GenericScraper(...) as scraper, before the first company
InitDrivers ==
  /\ input = <<>> /\ op = "none" /\ arg = <<>> /\ ret = <<>>
  /\ pending_data = <<>>
  /\ DriversOff
  /\ cur = 0 /\ pc = "loop"
  /\ scraper = NewDriverScraper

\* fetch_page_with_js on the scraper: the driver is created when there is
\* none, and the handle stays None when Chrome does not start.
WithJsDriver(s, init) ==
  IF s._selenium_driver = NoDriver /\ init = "driver"
    THEN [s EXCEPT !._selenium_driver = NewDriver(s.created),
                   !.created = @ \cup {NewDriver(s.created)}]
    ELSE s

\* scrape: fetch_page_with_js(website); without a main page scrape returns.
ScrapeFetchWithJs ==
  /\ pc = "loop" /\ cur < MaxCompanies
  /\ \E init \in DriverInits, main_soup \in BOOLEAN :
       /\ scraper' = WithJsDriver(scraper, init)
       /\ pc' = IF main_soup THEN "find_all_catalogs" ELSE "loop"
  /\ cur' = cur + 1
  /\ op' = "fetch_page_with_js"
  /\ UNCHANGED <<arg, ret, driversOther>>

\* _find_all_catalogs: a catalog page requests cannot read is read with
\* fetch_page_with_js; with no catalog found the strategies are tried.
FindAllCatalogs ==
  /\ pc = "find_all_catalogs"
  /\ \E with_js \in BOOLEAN, init \in DriverInits, catalog_links \in BOOLEAN :
       /\ scraper' = IF with_js THEN WithJsDriver(scraper, init) ELSE scraper
       /\ pc' = IF catalog_links THEN "find_contact_info" ELSE "strategies"
  /\ op' = "find_all_catalogs"
  /\ UNCHANGED <<arg, ret, cur, driversOther>>

\* _find_catalogs_with_strategies: the manager is created when there is none;
\* the deep scan reads the pages with requests, or starts its driver.
FindCatalogsWithStrategies ==
  /\ pc = "strategies"
  /\ \E needs_driver \in BOOLEAN, init \in DriverInits :
       LET manager == IF scraper._strategy_manager = NoManager THEN NewManager
                      ELSE scraper._strategy_manager
           start == /\ needs_driver /\ init = "driver"
                    /\ manager.strategies[1]._driver = NoDriver
           driver == NewDriver(scraper.created)
       IN scraper' =
            IF start
              THEN [scraper EXCEPT
                      !._strategy_manager =
                         [manager EXCEPT !.strategies[1]._driver = driver],
                      !.created = @ \cup {driver}]
              ELSE [scraper EXCEPT !._strategy_manager = manager]
  /\ pc' = "find_contact_info"
  /\ op' = "execute_all"
  /\ UNCHANGED <<arg, ret, cur, driversOther>>

\* _find_contact_info: a contact page is read with fetch_page_with_js when
\* requests gives nothing or too little; then scrape returns.
FindContactInfo ==
  /\ pc = "find_contact_info"
  /\ \E with_js \in BOOLEAN, init \in DriverInits :
       scraper' = IF with_js THEN WithJsDriver(scraper, init) ELSE scraper
  /\ pc' = "loop"
  /\ op' = "find_contact_info"
  /\ UNCHANGED <<arg, ret, cur, driversOther>>

\* The loop ends: __exit__ calls close()
ExitWith ==
  /\ pc = "loop"
  /\ \E outcome \in QuitOutcomes, strategy_outcome \in QuitOutcomes :
       scraper' = close(scraper, outcome, strategy_outcome)
  /\ pc' = "closed"
  /\ op' = "close"
  /\ UNCHANGED <<arg, ret, cur, driversOther>>

\* An exception leaves the with block: __exit__ calls close() and returns
\* False, the exception goes on to main's caller.
ExitWithException ==
  /\ pc \in {"loop", "find_all_catalogs", "strategies", "find_contact_info"}
  /\ \E outcome \in QuitOutcomes, strategy_outcome \in QuitOutcomes :
       scraper' = close(scraper, outcome, strategy_outcome)
  /\ pc' = "closed"
  /\ op' = "close"
  /\ ret' = "raised"
  /\ UNCHANGED <<arg, cur, driversOther>>

NextDrivers ==
  \/ ScrapeFetchWithJs \/ FindAllCatalogs \/ FindCatalogsWithStrategies \/ FindContactInfo
  \/ ExitWith \/ ExitWithException

SpecDrivers == InitDrivers /\ [][NextDrivers]_vars

MaxDownloads == 3

DownloadUrls ==
  {SiteX \o HrefCatalog, SiteX \o HrefCatalogQuery, SiteX \o HrefPlain, SiteY \o HrefPlain,
   SiteX \o HrefPrivacy}

\* download(url, company_name) reaches requests.get: the classifier accepts
\* the URL, its hash is not in downloaded_hashes, the file name has a valid
\* extension.
download_sends_request(url, hashes) ==
  /\ downloader_should_download_url(url, <<>>).ok
  /\ ~InHashes(hashes, UrlHash(url))
  /\ downloader_has_valid_extension(download_filename(url))

DownloadOff ==
  /\ companies = <<>> /\ cur = 0 /\ results = <<>> /\ tracker = <<>> /\ pc = "off"
  /\ scrape = <<>> /\ crawl = <<>> /\ deep = <<>> /\ contact = <<>>
  /\ download = <<>> /\ faults = 0

downloadOther ==
  <<input, pending_data, companies, cur, results, tracker, pc, scrape, crawl, deep, contact,
    download, faults>>

\* FileDownloader.__init__
InitDownload ==
  /\ input = <<>> /\ op = "none" /\ arg = <<>> /\ ret = <<>>
  /\ pending_data = <<>>
  /\ DownloadOff
  /\ scraper = [downloaded_hashes |-> {}, disk |-> {}, requests |-> <<>>, succeeded |-> {}]

\* downloader.download(url, company_name)
Download ==
  /\ Len(scraper.requests) < MaxDownloads
  /\ \E url \in DownloadUrls, company \in {Acme, Bolt} :
       \E response \in DownloadResponses(url) :
         LET r == downloader_download(url, company.company_name,
                                      scraper.downloaded_hashes, scraper.disk, response)
             sent == download_sends_request(url, scraper.downloaded_hashes)
         IN /\ op' = "download"
            /\ arg' = [url |-> url, company_name |-> company.company_name,
                       requested |-> sent]
            /\ ret' = [success |-> r.success, file_path |-> r.file_path]
            /\ scraper' =
                 [downloaded_hashes |-> r.hashes,
                  disk |-> r.disk,
                  requests |-> Append(scraper.requests, IF sent THEN url ELSE <<>>),
                  succeeded |-> IF r.success
                                  THEN scraper.succeeded
                                         \cup {[url |-> url, file_path |-> r.file_path]}
                                  ELSE scraper.succeeded]
  /\ UNCHANGED downloadOther

NextDownload == Download

SpecDownload == InitDownload /\ [][NextDownload]_vars

\* C20: download never removes a key of downloaded_hashes nor changes the
\* path under a key, and after a download of a URL returned success every
\* later download of that URL sends no request and returns success with the
\* path returned before.
C20_CacheAppendOnlyAndUsed ==
  [][/\ scraper.downloaded_hashes \subseteq scraper'.downloaded_hashes
     /\ \A e \in scraper.succeeded :
          e.url = arg'.url
            => /\ ~arg'.requested
               /\ ret'.success
               /\ ret'.file_path = e.file_path]_vars

\* The cache alone: no entry is removed or changed, and a key has one path.
C20_AppendOnly ==
  [][/\ scraper.downloaded_hashes \subseteq scraper'.downloaded_hashes
     /\ \A e, f \in scraper'.downloaded_hashes : e.key = f.key => e.path = f.path]_vars

\* A URL whose file was saved by download is served from the cache afterwards.
C20_SavedUrlServedFromCache ==
  [][InHashes(scraper.downloaded_hashes, UrlHash(arg'.url))
       => /\ ~arg'.requested
          /\ ret'.success
          /\ ret'.file_path = HashPath(scraper.downloaded_hashes, UrlHash(arg'.url))]_vars

\* The path lies in the directory of the company.
InCompanyDir(file_path, company_name) ==
  StartsWith(file_path, get_company_dir(company_name) \o <<"/">>)

\* C21: every path download(url, company_name) returns with success lies in
\* the directory of that company under the base directory, whatever was
\* downloaded before and for whom.
C21_PathInOwnCompanyDir ==
  (op = "download" /\ ret.success) => InCompanyDir(ret.file_path, arg.company_name)

\* A file that download writes is written into the directory of the company.
C21_SavedInOwnCompanyDir ==
  [][(op' = "download" /\ ret'.success /\ ret'.file_path \notin scraper.disk)
       => InCompanyDir(ret'.file_path, arg'.company_name)]_vars

(***************************************************************************)
(* Claims about the values the contact extraction accepts                  *)
(***************************************************************************)

\* The number as it is dialled inside the country: the trunk prefix 0 and
\* the last ten digits
Dialled(phone) ==
  LET digits == OnlyDigits(phone)
  IN <<"0">> \o PyFrom(digits, Max2(0, Len(digits) - 10))

\* The number is written with one of the INVALID_PHONE_STARTS: with the trunk
\* prefix (0900, 0800, 0123, 0000) or after it (1111, 1234, 9876)
KnownInvalid(phone) ==
  \E inv \in INVALID_PHONE_STARTS :
    StartsWith(Dialled(phone), inv) \/ StartsWith(Tail(Dialled(phone)), inv)

\* C22: no phone number written with a known-invalid start (repeated digits,
\* the premium-rate prefixes 0900 and 0800) is in the list of phones of the
\* running extract_contact_info, in its phone field or in the record it
\* returns, whichever strategy read the number.
C22_NoInvalidPhoneAccepted ==
  /\ \A i \in 1..Len(contact.page.phones) : ~KnownInvalid(contact.page.phones[i])
  /\ contact.page.phone # <<>> => ~KnownInvalid(contact.page.phone)
  /\ (op = "extract_contact_info" /\ ret.phone # <<>>) => ~KnownInvalid(ret.phone)

\* C23: every non-empty address extract_contact_info returns passes
\* _is_valid_address: 25 to 250 characters, no disqualifying phrase, a street
\* token, and a city, a postal code or a building number.
C23_ReturnedAddressValid ==
  (op = "extract_contact_info" /\ ret.address # <<>>) => is_valid_address(ret.address)

\* The address of a page without structured data comes from the text of the
\* page and passes the validator.
C23_TextAddressValid ==
  (op = "extract_contact_info" /\ ret.address # <<>> /\ OfKind(arg, "ld+json") = <<>>)
    => is_valid_address(ret.address)

\* The part of the email after its @
DomainOf(email) ==
  LET at == CHOOSE i \in 1..Len(email) : email[i] = "@"
  IN SubSeq(email, at + 1, Len(email))

Cato == Company(<<"C", "a", "t", "o">>, SiteX \o PathKatalog)

RevisitLists ==
  UNION {[1..n -> {Cato, Bolt, Dara}] : n \in 1..MaxCompanies}

InitRevisit ==
  /\ input = <<>> /\ op = "none" /\ arg = <<>> /\ ret = <<>>
  /\ companies \in RevisitLists
  /\ cur = 0
  /\ results = <<>>
  /\ tracker = NewTracker(Len(companies))
  /\ pending_data = <<>>
  /\ pc = "loop"
  /\ scraper = NewScraper
  /\ scrape = NoScrape
  /\ crawl = NoCrawl
  /\ deep = NoDeep
  /\ contact = NoContactLoop
  /\ download = NoDownload
  /\ faults = 0

SpecRevisit == InitRevisit /\ [][Next]_vars

\* The step fetches a candidate page of _find_all_catalogs
CrawlFetches == pc = "discover" /\ crawl'.pages_checked = crawl.pages_checked + 1

\* The step fetches a candidate page of _find_contact_info
ContactFetches == pc = "contact_loop" /\ scraper'.visited_urls # scraper.visited_urls

\* C25: within the scrape of one company no candidate page is fetched that
\* was fetched before: the page a turn of the catalog loop or of the contact
\* loop fetches is not among the pages visited so far, and it is not the main
\* page of the company, which was fetched at the start of the scrape.
C25_NoUrlFetchedTwice ==
  [][/\ CrawlFetches =>
          /\ crawl.catalog_pages[crawl.idx] \notin scraper.visited_urls
          /\ crawl.catalog_pages[crawl.idx] # scrape.website
     /\ ContactFetches =>
          /\ contact.contact_pages[contact.idx] \notin scraper.visited_urls
          /\ contact.contact_pages[contact.idx] # scrape.website]_vars

\* No candidate page is fetched twice as a candidate page, by the catalog
\* loop or by the contact loop.
C25_CandidateVisitedOnce ==
  [][/\ CrawlFetches => crawl.catalog_pages[crawl.idx] \notin scraper.visited_urls
     /\ ContactFetches => contact.contact_pages[contact.idx] \notin scraper.visited_urls]_vars

(***************************************************************************)
(* Claims about the order and the end of the strategies                    *)
(***************************************************************************)

\* The catalogs the first n strategies of the list give, the raising ones
\* left out
FoundByFirst(strategies, n) ==
  UNION {strategies[i].catalogs : i \in {k \in 1..n : strategies[k].raises = <<>>}}

\* The strategies among the first n that gave a document
GaveSoup(strategies, n) ==
  {k \in 1..n : strategies[k].raises = <<>> /\ strategies[k].soup # <<>>}

\* C26: scrape calls the strategy manager only when the crawl returned no
\* catalog link; execute_all runs the strategies in the order of the list,
\* each once; with stop_on_success it runs no strategy after the one with
\* which the catalogs found reach min_catalogs, and without it, or below
\* min_catalogs, it runs them all; it returns the union of the catalogs the
\* executed strategies found and the document of the last one that gave one.
C26_StrategiesInOrderUntilSuccess ==
  /\ (op = "scrape" /\ ret.executed # <<>>)
       => arg.catalog_links = <<>> /\ arg.use_multi_strategy
  /\ (op = "scrape" /\ arg.catalog_links = <<>> /\ arg.use_multi_strategy)
       => ret.executed # <<>>
  /\ (op \in {"execute_all", "scrape"} /\ ret.executed # <<>>) =>
       LET n == Len(ret.executed)
           Enough(k) == /\ arg.stop_on_success
                        /\ arg.strategies[k].raises = <<>>
                        /\ arg.strategies[k].catalogs # {}
                        /\ Cardinality(FoundByFirst(arg.strategies, k)) >= arg.min_catalogs
       IN /\ ret.executed = [k \in 1..n |-> k]
          /\ \A k \in 1..(n - 1) : ~Enough(k)
          /\ n < Len(arg.strategies) => Enough(n)
          /\ op = "execute_all" =>
               {ret.catalogs[k] : k \in DOMAIN ret.catalogs} = FoundByFirst(arg.strategies, n)
          /\ op = "scrape" =>
               {ret.catalogs[k] : k \in DOMAIN ret.catalogs}
                 = {url \in FoundByFirst(arg.strategies, n) : should_download_url(url, <<>>).ok}
          /\ ret.soup = IF GaveSoup(arg.strategies, n) = {} THEN <<>>
                        ELSE arg.strategies[Max(GaveSoup(arg.strategies, n))].soup

\* With min_catalogs 2 the first strategy finds one catalog and the second
\* brings the set to two: the third strategy is not executed.
C26_Witness ==
  /\ op = "execute_all"
  /\ arg.stop_on_success /\ arg.min_catalogs = 2
  /\ Len(arg.strategies) = 3
  /\ arg.strategies[1].catalogs = {CatalogU}
  /\ arg.strategies[2].catalogs = {CatalogU, CatalogV}
  /\ ret.executed = <<1, 2>>
  /\ Len(ret.catalogs) = 2
  /\ ret.soup = <<SoupB>>

\* In the batch the strategies start only from the end of a crawl that found
\* no catalog.
C26_InvokedAfterEmptyCrawl ==
  [][(pc' = "strategies" /\ pc # "strategies")
       => pc = "discover" /\ crawl.all_catalogs = {} /\ scrape'.catalog_links = <<>>]_vars

(***************************************************************************)
(* Claims about the links harvested from the candidate pages               *)
(***************************************************************************)

\* The places of the common catalog paths in the queue of _find_all_catalogs
CommonPlaces ==
  LET urls == {RStripSlash(scrape.base_url) \o common_catalog_paths[k] :
                 k \in DOMAIN common_catalog_paths}
  IN {i \in DOMAIN crawl.catalog_pages : crawl.catalog_pages[i] \in urls}

\* The places of the links harvested from candidate pages: the loop appends
\* them, so they stand behind the last common path
HarvestedPlaces ==
  LET common == CommonPlaces
  IN {i \in DOMAIN crawl.catalog_pages : \A j \in common : i > j}

\* The loop over the candidate pages is over
CrawlOver ==
  /\ pc = "discover"
  /\ crawl.idx > Len(crawl.catalog_pages) \/ BudgetReached(crawl.pages_checked)

\* C27: the links harvested from a candidate page visited in the first half
\* of the page budget take part in the crawl: when the loop is over and links
\* were harvested, one of them has been visited.
C27_HarvestedLinkVisited ==
  (CrawlOver /\ HarvestedPlaces # {})
    => \E i \in HarvestedPlaces : crawl.catalog_pages[i] \in scraper.visited_urls

\* No harvested link is ever visited by the loop, and the loop never gets
\* past the common paths.
C27_HarvestedNeverVisited ==
  pc = "discover" =>
    \A i \in HarvestedPlaces :
      crawl.catalog_pages[i] \notin scraper.visited_urls /\ crawl.idx <= i

(***************************************************************************)
(* GenericScraper._select_best_phone over the lists extract_contact_info   *)
(* accumulates, and its function-level specification                       *)
(***************************************************************************)

\* Numbers as the pages write them
WrittenPhones ==
  {<<"0", "2", "1", "2", " ", "5", "5", "5", " ", "0", "0", " ", "1", "1">>,
   <<"0", "2", "1", "6", "5", "5", "5", "0", "0", "1", "3", "1">>,
   <<"+", "9", "0", " ", "3", "1", "2", " ", "5", "5", "5", " ", "0", "0", " ", "1", "4">>,
   <<"0", "2", "2", "4", "5", "5", "5", "0", "0", "1", "5", "1">>,
   <<"0", "5", "3", "2", " ", "1", "2", "3", " ", "4", "5", " ", "6", "7">>,
   <<"+", "1", "2", "1", "2", "5", "5", "5", "0", "0", "1", "1">>,
   <<"0", "0", "9", "0", "2", "1", "2", "5", "5", "5", "0", "0", "1", "1">>}

\* What contact['phones'] holds: numbers that _format_phone has returned
AccumulatedPhones == {format_phone(phone) : phone \in WrittenPhones}

\* Most numbers in a list
MaxPhones == 3

PhoneLists ==
  UNION {[1..n -> AccumulatedPhones] : n \in 1..MaxPhones}

InitSelect ==
  /\ input \in PhoneLists
  /\ op = "none"
  /\ arg = <<>>
  /\ ret = <<>>
  /\ pending_data = <<>>
  /\ ProgOff

\* self._select_best_phone(contact['phones'])
SelectBestPhone ==
  /\ op = "none"
  /\ op' = "select_best_phone"
  /\ arg' = input
  /\ ret' = select_best_phone(input)
  /\ UNCHANGED <<input, pending_data, progVars>>

NextSelect == SelectBestPhone

SpecSelect == InitSelect /\ [][NextSelect]_vars

\* The places of the list whose digits start with one of the prefixes
\* followed by one of the codes
PlacesWith(phones, prefixes, codes) ==
  {i \in 1..Len(phones) :
     \E prefix \in prefixes, code \in codes : StartsWith(OnlyDigits(phones[i]), prefix \o code)}

CountryOrTrunk == {<<"9", "0">>, <<"0">>}

IstanbulCodes == {<<"2", "1", "2">>, <<"2", "1", "6">>}

LandlineCodes == {<<"2">>}

\* C28: over a list of accumulated phones that is not empty, the selection
\* returns the first number whose digits start with 212 or 216 after a country
\* or trunk prefix when there is one, else the first number with a landline
\* prefix, else the first number of the list; what it returns is a member of
\* the list.
C28_BestPhoneByPreference ==
  op = "select_best_phone" =>
    LET istanbul == PlacesWith(arg, CountryOrTrunk, IstanbulCodes)
        landline == PlacesWith(arg, CountryOrTrunk, LandlineCodes)
    IN /\ ret = arg[IF istanbul # {} THEN Min(istanbul)
                    ELSE IF landline # {} THEN Min(landline)
                    ELSE 1]
       /\ InSeq(ret, arg)

\* A list whose first number is a mobile one, whose second is a landline of
\* another city and whose third is an Istanbul number: the third is returned.
C28_Witness ==
  /\ op = "select_best_phone"
  /\ Len(arg) = 3
  /\ PlacesWith(arg, CountryOrTrunk, IstanbulCodes) = {3}
  /\ PlacesWith(arg, CountryOrTrunk, LandlineCodes) = {2, 3}
  /\ ret = arg[3]

(***************************************************************************)
(* The candidate-page loops of GenericScraper._find_all_catalogs and       *)
(* DeepScanStrategy.find_catalog_links on their own, over every site of    *)
(* three pages: any links between the pages, pages that fail always.       *)
(***************************************************************************)

PathTrKatalog == <<"/","t","r","/","k","a","t","a","l","o","g">>

\* The paths of the pages of a site
SitePaths == {PathTrKatalog, PathKatalog, PathArsiv}

\* Most links from one page to the pages of the site
MaxLinks == 1

RECURSIVE Distinct(_)
Distinct(s) == s = <<>> \/ (~InSeq(Head(s), Tail(s)) /\ Distinct(Tail(s)))

\* The lists of links a page can have
LinkLists ==
  {l \in UNION {[1..n -> SitePaths] : n \in 0..MaxLinks} : Distinct(l)}

\* The sets of pages whose fetch never gives a document
FailingSets == {{}, {PathKatalog}, SitePaths}

\* A site: the links of its pages (the main page links to /katalog), the
\* pages whose fetch never gives a document, what the fetch of a URL without
\* a page gives, and the loop that is run over it
LoopSites ==
  [links : [SitePaths -> LinkLists],
   failing : FailingSets,
   missing : {"nothing", "error document"},
   loop : {"discover", "deep"}]

RECURSIVE AnchorsTo(_)
AnchorsTo(paths) ==
  IF paths = <<>> THEN <<>>
  ELSE <<Elem("a", Head(paths), <<>>, TextKataloglar)>> \o AnchorsTo(Tail(paths))

\* The document of a page of the site
SitePage(site, path) ==
  WebPage(SiteX \o path, AnchorsTo(site.links[path]), NoContact, <<>>)

\* The document of the main page
MainPage == WebPage(SiteX, AnchorsTo(<<PathKatalog>>), NoContact, <<>>)

\* What fetch_page, and fetch_page_with_js after it, return for a URL of the
\* site (<<>> for None)
SiteFetch(site, url) ==
  IF \E path \in SitePaths : url = SiteX \o path
    THEN LET path == CHOOSE path \in SitePaths : url = SiteX \o path
         IN IF path \in site.failing THEN <<>> ELSE <<SitePage(site, path)>>
  ELSE IF url = SiteX THEN <<MainPage>>
  ELSE IF site.missing = "nothing" THEN <<>>
  ELSE <<ErrorDocument(url)>>

LoopsOff ==
  /\ companies = <<>> /\ cur = 0 /\ results = <<>> /\ tracker = <<>>
  /\ scrape = <<>> /\ contact = <<>> /\ download = <<>> /\ faults = 0

loopsOther ==
  <<input, pending_data, companies, cur, results, tracker, scrape, contact, download, faults>>

\* The loops as they start: _find_all_catalogs after scrape has cleared
\* visited_urls and fetched the main page, find_catalog_links after execute
\* has fetched the website
InitLoops ==
  /\ input \in LoopSites
  /\ op = "none" /\ arg = <<>> /\ ret = <<>>
  /\ pending_data = <<>>
  /\ LoopsOff
  /\ pc = input.loop
  /\ scraper = [visited_urls |-> IF input.loop = "deep" THEN {SiteX} ELSE {}]
  /\ crawl = IF input.loop = "discover"
               THEN [all_catalogs |-> {},
                     catalog_pages |->
                       CandidatePages(MainPage.soup, SiteX, {}, {}),
                     idx |-> 1,
                     pages_checked |-> 0]
             ELSE NoCrawl
  /\ deep = IF input.loop = "deep"
              THEN [all_catalogs |-> {},
                    pages_to_scan |->
                      DeepPagesToScan(MainPage.soup, SiteX, {SiteX}),
                    idx |-> 1,
                    pages_scanned |-> 0]
            ELSE NoDeep

\* _find_all_catalogs: one turn of the loop over catalog_pages
FindAllCatalogsTurn ==
  /\ pc = "discover"
  /\ crawl.idx <= Len(crawl.catalog_pages)
  /\ ~BudgetReached(crawl.pages_checked)
  /\ LET page_url == crawl.catalog_pages[crawl.idx]
     IN IF page_url \in scraper.visited_urls
          THEN /\ crawl' = [crawl EXCEPT !.idx = @ + 1]
               /\ UNCHANGED scraper
          ELSE /\ scraper' = [scraper EXCEPT !.visited_urls = @ \cup {page_url}]
               /\ \E page_soup \in {SiteFetch(input, page_url)} :
                    crawl' = crawl_visit(crawl, SiteX, page_soup)
  /\ op' = "fetch" /\ arg' = crawl.catalog_pages[crawl.idx]
  /\ UNCHANGED <<ret, pc, deep, loopsOther>>

\* _find_all_catalogs: the loop is left, by its break or at the end of the list
FindAllCatalogsReturn ==
  /\ pc = "discover"
  /\ crawl.idx > Len(crawl.catalog_pages) \/ BudgetReached(crawl.pages_checked)
  /\ pc' = "returned"
  /\ op' = "find_all_catalogs" /\ arg' = SiteX /\ ret' = crawl.all_catalogs
  /\ UNCHANGED <<scraper, crawl, deep, loopsOther>>

\* find_catalog_links: one turn of the loop over pages_to_scan
FindCatalogLinksTurn ==
  /\ pc = "deep"
  /\ deep.idx <= Len(deep.pages_to_scan)
  /\ deep.pages_scanned < deep_max_pages
  /\ LET page_url == deep.pages_to_scan[deep.idx]
     IN IF page_url \in scraper.visited_urls
          THEN /\ deep' = deep_visit(deep, SiteX, <<>>, scraper.visited_urls)
               /\ UNCHANGED scraper
          ELSE LET visited_urls == scraper.visited_urls \cup {page_url}
               IN /\ scraper' = [scraper EXCEPT !.visited_urls = visited_urls]
                  /\ \E page_soup \in {SiteFetch(input, page_url)} :
                       deep' = deep_visit(deep, SiteX, page_soup, visited_urls)
  /\ op' = "fetch" /\ arg' = deep.pages_to_scan[deep.idx]
  /\ UNCHANGED <<ret, pc, crawl, loopsOther>>

\* find_catalog_links: the loop is left, by its break or at the end of the list
FindCatalogLinksReturn ==
  /\ pc = "deep"
  /\ deep.idx > Len(deep.pages_to_scan) \/ deep.pages_scanned >= deep_max_pages
  /\ pc' = "returned"
  /\ op' = "find_catalog_links" /\ arg' = SiteX /\ ret' = deep.all_catalogs
  /\ UNCHANGED <<scraper, crawl, deep, loopsOther>>

NextLoops ==
  \/ FindAllCatalogsTurn
  \/ FindAllCatalogsReturn
  \/ FindCatalogLinksTurn
  \/ FindCatalogLinksReturn

\* The interpreter runs the next statement of the one thread there is, and a
\* fetch ends, with a document or without one, within its timeout
SpecLoops == InitLoops /\ [][NextLoops]_vars /\ WF_vars(NextLoops)

\* C29: the loops over the candidate pages end for every site: whatever the
\* links between the pages, cycles among them, and whichever pages never
\* give a document, _find_all_catalogs and find_catalog_links leave their
\* loop after finitely many fetches.
C29_LoopsTerminate == <>(pc = "returned")

\* find_catalog_links has returned on a site where /tr/katalog links to
\* /katalog/arsiv and that page links back, where /katalog never gives a
\* document; the page appended during the loop has been fetched.
C29_Witness ==
  /\ pc = "returned"
  /\ op = "find_catalog_links"
  /\ input.links[PathTrKatalog] = <<PathArsiv>>
  /\ input.links[PathArsiv] = <<PathTrKatalog>>
  /\ input.failing = {PathKatalog}
  /\ deep.pages_to_scan[Len(deep.pages_to_scan)] = SiteX \o PathArsiv
  /\ SiteX \o PathArsiv \in scraper.visited_urls

\* The fetches of a loop are bounded by the length of its list, and the list
\* of _find_all_catalogs is not read past its budget
C29_FetchesBounded ==
  /\ pc = "discover" => crawl.pages_checked <= max_pages
  /\ op = "find_all_catalogs" => Cardinality(scraper.visited_urls) <= max_pages
  /\ op = "find_catalog_links" =>
       /\ Cardinality(scraper.visited_urls) <= Len(deep.pages_to_scan) + 1
       /\ Len(deep.pages_to_scan) <= Len(deep_common_paths) + Cardinality(SitePaths)

\* The URL without its query string ends with one of the accepted extensions,
\* whatever the case of its letters
EndsWithAccepted(url) ==
  \E ext \in {<<".","p","d","f">>, <<".","d","o","c">>, <<".","d","o","c","x">>,
              <<".","x","l","s">>, <<".","x","l","s","x">>} :
    EndsWith(Lower(BeforeQuery(url)), ext)

\* C30: every URL extract_catalog_links returns ends, whatever the case of
\* its letters and without its query string, with one of .pdf, .doc, .docx,
\* .xls, .xlsx, whatever element or attribute of the document it comes from.
C30_ReturnedUrlHasExtension ==
  op = "extract_catalog_links" =>
    \A i \in DOMAIN ret : EndsWithAccepted(ret[i])

\* The URLs that come from an anchor, an onclick handler, an embedded object
\* or a script do end with an accepted extension: the ones that do not come
\* from a data-pdf or data-file-url attribute.
C30_CheckedElementsHaveExtension ==
  op = "extract_catalog_links" =>
    \A i \in DOMAIN ret :
      EndsWithAccepted(ret[i])
        \/ \E k \in DOMAIN arg.soup :
             /\ arg.soup[k].tag \in {"data-pdf", "data-file-url"}
             /\ resolve_url(arg.base_url, arg.soup[k].url) = ret[i]

====
